---- MODULE Spec2Model ----
(***************************************************************************)
(* Black Eagle Arrows inventory count identifier.                          *)
(*                                                                         *)
(* The module models, from src/utils/playwright_utils.py, src/launcher.py, *)
(* src/utils/data_manipulation_utils.py, src/utils/export_utils.py and     *)
(* src/scraper.py:                                                         *)
(*   - the stock probe: get_inventory_value over try_inventory_quantity    *)
(*     (specification SpecProbe), and the same probe against a cart that   *)
(*     accumulates, without time-outs (SpecCartProbe);                     *)
(*   - the binary search of scraper.py's get_inventory_value (SpecBinary); *)
(*   - get_all_combinations on its own (SpecCombos);                       *)
(*   - one product task: handle_url with check_handled_url and             *)
(*     inventory_identifier, probing each combination (SpecTask);          *)
(*   - the run: the listing batch and the product batch of run() under     *)
(*     gather_with_concurrency, main's final outputs and main_launcher's   *)
(*     finally block (SpecRun);                                            *)
(*   - the listing batch run sequentially, run after run (SpecMerge);      *)
(*   - the browser contexts of the tasks (SpecContexts);                   *)
(*   - start-up after an earlier run: load_existing_data and the files     *)
(*     that outlive the process (SpecReload).                              *)
(* Each part has its own specification; the variables of the other parts   *)
(* stay at their initial values.                                           *)
(***************************************************************************)
EXTENDS Integers, Sequences, FiniteSets, TLC

(***************************************************************************)
(* Program constants.                                                      *)
(***************************************************************************)
\* inventory_identifier(..., guessed_initial_value: int = 100)
GuessedInitialValue == 100
\* get_inventory_value: "if try_count > 10"
TryCountLimit == 10
\* get_inventory_value: "check_value += 50000"
EscapeIncrement == 50000
\* get_inventory_value: "try_count = -100000"
TryCountReset == -100000
\* try_inventory_quantity: "if count % 5 == 0: await page.reload()"
ReloadEvery == 5
\* listing_urls: the four listing pages of the site
NumListings == 4
\* run: gather_with_concurrency(2, *listing_tasks)
ListingLimit == 2
\* launcher.py: the number of tabs used for an invalid answer
DefaultTabs == 5

(***************************************************************************)
(* Bounds of the model.                                                    *)
(***************************************************************************)
\* stocks 0..MaxStock are probed, besides 100 and 1000000
MaxStock == 9
\* try_inventory_quantity calls of one probe that the model follows
MaxCalls == 30
\* click timeouts of one try_inventory_quantity call that the model follows
MaxClickTimeouts == 7
\* cart/add responses without a "data" member that one probe may meet
MaxMalformed == 1
\* calls of a probe that is followed in every browser
MaxFormCalls == 4
\* characters of the user's answer to "How many tabs do you want"
MaxInputLen == 2
\* records in the list handed to standardize_data
MaxReportLen == 3
\* pages of one listing
MaxPages == 2
\* tabs the user may ask for
MaxTabs == 2
\* a retry budget for the add-to-cart click, below MaxClickTimeouts
ClickRetryBudget == 5
\* records of data that the start-up model follows
MaxRecords == 3
\* attribute selects of a page handed to get_all_combinations on its own
MaxAxes == 2
\* options of one such select
MaxOptions == 2
\* the constant c of the logarithmic call budget
LogFactor == 2
\* tasks whose browser contexts are followed: one handle_listing, the rest
\* handle_url
NumCtxTasks == 3
\* browser contexts that may be open at a time
MaxContexts == 4
\* accepted add-to-cart clicks of one task that are followed
MaxAdds == 2
\* guesses 1..MaxGuess are handed to the binary search, besides 100
MaxGuess == 9

VARIABLES
    \* ---- the product page under probe (the cart oracle)
    stock,          \* units the site can still sell of the selected variant
    oracleKind,     \* "threshold": stateless; "cart": the cart accumulates
    outOfStock,     \* the page shows the "out of Stock" availability text
    cartUnits,      \* units added to the cart by successful calls
    \* ---- get_inventory_value
    gi_pc,          \* "start" | "loop" | "call" | "done" | "raised"
    check_value,
    inventory,
    try_count,
    \* ---- try_inventory_quantity
    tq_pc,          \* "idle" | "fill" | "click" | "response" | "missed"
    count,          \* click timeouts of the running call
    respError,      \* the cart/add response of the last click carries data.error
    form,           \* the add-to-cart form of the page: the quantity field and
                    \* whether the selects hold the combination in work
    \* ---- history of the probe
    calls,          \* try_inventory_quantity calls started
    transient,      \* a fill, click or response wait has timed out
    malformed,      \* cart/add responses that came without a "data" member
    restores,       \* the form controls whose value the browser restores
                    \* when it reloads the page
    accepted,       \* of the quantities that calls of the search returned
                    \* available for: the largest (max), and their sum
    \* ---- handle_url: one product task
    hu_pc,          \* "idle" | "ctx" | "goto" | "check" | "item" | "ident" |
                    \* "select" | "probe" | "finally" | "close" | "done" | "raised"
    axes,           \* the page's attribute selects: <<[name, options], ...>>
    unavailable,    \* the page shows the "Unavailable" add-to-cart button
    comb_i,         \* position of the combination in work (1-based)
    data,           \* the shared record list
    failed_urls,    \* the shared set of failed URLs
    data_pkl,       \* data.pkl on disk
    output_csv,     \* outputs/output.csv on disk: its rows
    failed_pkl,     \* failed_urls.pkl on disk
    \* ---- history of the task
    data0,          \* data as reloaded at start-up
    failure,        \* why the task failed: "none" | "oracle" | "select" |
                    \* "notimpl" | "other" | "cancelled"; "save": the
                    \* launcher could not save progress
    \* ---- run and gather_with_concurrency
    phase,          \* "idle" | "listing" | "products" | "finished" |
                    \* "reported" | "aborted" | "returned" | "crashed"; at
                    \* start-up: "startup" | "loaded" | "running"
    pages_number,   \* the user's number of tabs
    sem_value,      \* the value of the batch's asyncio.Semaphore
    gather_raised,  \* a task of the batch has raised
    \* ---- the handle_listing tasks
    lt_pc,          \* per listing: "wait" | "open" | "page" | "extract" |
                    \* "close" | "done" | "raised"
    page_id,        \* per listing: the page in work
    total_pages,    \* per listing: get_total_pages
    products_urls,  \* per listing: the set loaded from products_urls.pkl
    products_pkl,   \* products_urls.pkl on disk
    returned,       \* URLs that get_page_products_urls returned (history)
    remerged,       \* URLs merged when a merge had returned them before (history)
    \* ---- the handle_url tasks of the run
    pt_pc,          \* per URL: "none" | "wait" | "open" | "body" | "dump" |
                    \* "close" | "done" | "raised"
    appended,       \* per URL: records the task has appended to data
    data_pkl_torn,  \* data.pkl is opened for writing and not yet written
    \* ---- get_all_combinations, called on its own
    gc_pc,          \* "idle" | "start" | "called" | "again"
    arg_lists,      \* the option lists handed to the call
    combinations,   \* what the call returned
    combinations_again, \* what a second call on the same lists returned
    \* ---- standardize_data, called on its own
    sd_pc,          \* "idle" | "start" | "done"
    standard_data,  \* what the call returned
    \* ---- get_inventory_value of scraper.py (the binary search)
    bs_pc,          \* "idle" | "start" | "loop" | "call" | "done"
    left,
    right,
    mid,
    result,         \* the value returned
    \* ---- browser contexts of the tasks
    ct_pc,          \* per task: "new" | "work" | "page" | "closed"
    contexts,       \* the contexts the browser has open (for one product
                    \* task on its own: its context and its page)
    context_of,     \* per task: the contexts its locals refer to, in the
                    \* order of their creation
    cart_of,        \* per context: units in the cart of its session
    added_by        \* per task: units its add-to-cart clicks have added

probeVars == <<stock, oracleKind, outOfStock, cartUnits, gi_pc, check_value,
               inventory, try_count, tq_pc, count, respError, form, calls, transient,
               malformed, restores, accepted>>

taskVars == <<hu_pc, axes, unavailable, comb_i, data, failed_urls, data_pkl, output_csv,
              output_csv, failed_pkl, data0, failure>>

runVars == <<phase, pages_number, sem_value, gather_raised, lt_pc, page_id,
             total_pages, products_urls, products_pkl, returned, remerged, pt_pc,
             appended, data_pkl_torn>>

comboVars == <<gc_pc, arg_lists, combinations, combinations_again, sd_pc,
               standard_data>>

binVars == <<bs_pc, left, right, mid, result>>

ctxVars == <<ct_pc, contexts, context_of, cart_of, added_by>>

vars == <<probeVars, taskVars, runVars, comboVars, binVars, ctxVars>>

StockValues == (0 .. MaxStock) \cup {100, 1000000}

\* the form of a page as it is loaded: quantity 1, the default options
FreshForm == [qty |-> 1, variant |-> "default"]

\* the controls of the add-to-cart form
Controls == {"qty", "variant"}

\* the form after inventory_identifier has selected the combination
SelectedForm == [qty |-> 1, variant |-> "chosen"]

\* no call of the search has returned available yet
NoneAccepted == [max |-> 0, sum |-> 0]

(***************************************************************************)
(* The cart oracle: what the site answers to an add-to-cart of n units.    *)
(***************************************************************************)
SiteAccepts(n) ==
    IF oracleKind = "threshold" THEN n <= stock ELSE cartUnits + n <= stock

(***************************************************************************)
(* get_inventory_value                                                     *)
(***************************************************************************)
\* a probe about to start, in a browser that restores one of the sets bs
ProbeStart(bs) ==
    /\ stock \in StockValues
    /\ oracleKind \in {"threshold", "cart"}
    /\ outOfStock \in BOOLEAN
    /\ outOfStock => stock = 0
    /\ cartUnits = 0
    /\ gi_pc = "start"
    /\ check_value = GuessedInitialValue
    /\ inventory = 0
    /\ accepted = NoneAccepted
    /\ try_count = 0
    /\ tq_pc = "idle"
    /\ count = 0
    /\ respError = FALSE
    /\ form = SelectedForm
    /\ calls = 0
    /\ transient = FALSE
    /\ malformed = 0
    /\ restores \in bs

\* the probe in a browser that restores the whole form on a reload
InitProbe == ProbeStart({Controls})

\* the probe part at rest
IdleProbe ==
    /\ stock = 0
    /\ oracleKind = "cart"
    /\ outOfStock = FALSE
    /\ cartUnits = 0
    /\ gi_pc = "idle"
    /\ check_value = GuessedInitialValue
    /\ inventory = 0
    /\ accepted = NoneAccepted
    /\ try_count = 0
    /\ tq_pc = "idle"
    /\ count = 0
    /\ respError = FALSE
    /\ form = FreshForm
    /\ calls = 0
    /\ transient = FALSE
    /\ malformed = 0
    /\ restores = Controls

\* the task part at rest
IdleTask ==
    /\ hu_pc = "idle"
    /\ axes = <<>>
    /\ unavailable = FALSE
    /\ comb_i = 0
    /\ data = <<>>
    /\ failed_urls = {}
    /\ data_pkl = <<>>
    /\ output_csv = <<>>
    /\ failed_pkl = {}
    /\ data0 = <<>>
    /\ failure = "none"

\* the run part at rest
IdleRun ==
    /\ phase = "idle"
    /\ pages_number = 1
    /\ sem_value = 0
    /\ gather_raised = FALSE
    /\ lt_pc = <<>>
    /\ page_id = <<>>
    /\ total_pages = <<>>
    /\ products_urls = <<>>
    /\ products_pkl = {}
    /\ returned = {}
    /\ remerged = {}
    /\ pt_pc = <<>>
    /\ appended = <<>>
    /\ data_pkl_torn = FALSE

\* get_all_combinations at rest
IdleCombos ==
    /\ gc_pc = "idle"
    /\ arg_lists = <<>>
    /\ combinations = <<>>
    /\ combinations_again = <<>>
    /\ sd_pc = "idle"
    /\ standard_data = <<>>

\* the binary search of scraper.py at rest
IdleBinary ==
    /\ bs_pc = "idle"
    /\ left = 0
    /\ right = 0
    /\ mid = 0
    /\ result = 0

\* the browser without a context
IdleContexts ==
    /\ ct_pc = <<>>
    /\ contexts = {}
    /\ context_of = <<>>
    /\ cart_of = <<>>
    /\ added_by = <<>>

\* a probe that does not look at the availability text, for comparison
GIV_StartUnchecked ==
    /\ gi_pc = "start"
    /\ inventory' = 0
    /\ accepted' = NoneAccepted
    /\ try_count' = 0
    /\ gi_pc' = "loop"
    /\ UNCHANGED <<stock, oracleKind, outOfStock, cartUnits, check_value,
                   tq_pc, count, respError, form, calls, transient, malformed, restores>>
    /\ UNCHANGED <<taskVars, runVars, comboVars, binVars, ctxVars>>

\* inventory = 0; try_count = 0; if await check_out_of_stock(page): return inventory
GIV_Start ==
    /\ gi_pc = "start"
    /\ inventory' = 0
    /\ accepted' = NoneAccepted
    /\ try_count' = 0
    /\ gi_pc' = IF outOfStock THEN "done" ELSE "loop"
    /\ UNCHANGED <<stock, oracleKind, outOfStock, cartUnits, check_value,
                   tq_pc, count, respError, form, calls, transient, malformed, restores>>
    /\ UNCHANGED <<taskVars, runVars, comboVars, binVars, ctxVars>>

\* the head of "while True": the try counter, the escape hatch, and the call
GIV_LoopHead ==
    /\ gi_pc = "loop"
    /\ calls < MaxCalls
    /\ IF try_count + 1 > TryCountLimit
         THEN /\ check_value' = check_value + EscapeIncrement
              /\ try_count' = TryCountReset
         ELSE /\ check_value' = check_value
              /\ try_count' = try_count + 1
    /\ gi_pc' = "call"
    /\ tq_pc' = "fill"
    /\ calls' = calls + 1
    /\ UNCHANGED <<stock, oracleKind, outOfStock, cartUnits, inventory, accepted,
                   count, respError, form, transient, malformed, restores>>
    /\ UNCHANGED <<taskVars, runVars, comboVars, binVars, ctxVars>>

\* a loop body that keeps the largest accepted quantity, for comparison
GIV_AfterTryLargest(availability) ==
    /\ inventory' = IF availability /\ check_value > inventory
                       THEN check_value ELSE inventory
    /\ check_value' = IF availability THEN check_value ELSE check_value \div 2
    /\ gi_pc' = IF check_value' = 1 /\ ~availability THEN "done" ELSE "loop"
    /\ UNCHANGED try_count

\* the loop body after the call returned availability
GIV_AfterTry(availability) ==
    /\ inventory' = IF availability THEN inventory + check_value ELSE inventory
    /\ check_value' = IF availability THEN check_value ELSE check_value \div 2
    /\ gi_pc' = IF check_value' = 1 /\ ~availability THEN "done" ELSE "loop"
    /\ UNCHANGED try_count

\* try_inventory_quantity returns availability for check_value (history)
CallReturns(availability) ==
    accepted' = IF availability
                  THEN [max |-> IF check_value > accepted.max
                                  THEN check_value ELSE accepted.max,
                        sum |-> accepted.sum + check_value]
                  ELSE accepted

\* an exception leaves try_inventory_quantity ("raise TimeoutError") and, not
\* caught in get_inventory_value, leaves the probe
TQ_Raise ==
    /\ tq_pc' = "idle"
    /\ gi_pc' = "raised"
    /\ transient' = TRUE
    /\ UNCHANGED <<check_value, inventory, accepted, try_count>>

(***************************************************************************)
(* try_inventory_quantity                                                  *)
(***************************************************************************)
\* await page.fill(qty, str(check_value)); count = 0
TQ_Fill ==
    /\ tq_pc = "fill"
    /\ \/ /\ tq_pc' = "click"
          /\ form' = [form EXCEPT !.qty = check_value]
          /\ count' = 0
          /\ UNCHANGED <<gi_pc, check_value, inventory, accepted, try_count, transient>>
       \/ /\ TQ_Raise
          /\ UNCHANGED <<count, form>>
    /\ UNCHANGED <<stock, oracleKind, outOfStock, cartUnits, respError, calls,
                   malformed, restores>>
    /\ UNCHANGED <<taskVars, runVars, comboVars, binVars, ctxVars>>

\* await page.click(addToCart) succeeds: the site takes the request for
\* the quantity in the form (the one stock of the model answers for either
\* variant); break.  page.expect_response is entered after the click has
\* returned: the response is still on its way then ("response"), or it has
\* arrived already and the wait will not see it ("missed")
TQ_ClickOk ==
    /\ tq_pc = "click"
    /\ \/ /\ tq_pc' = "response"
          /\ UNCHANGED transient
       \/ /\ tq_pc' = "missed"
          /\ transient' = TRUE
    /\ respError' = ~SiteAccepts(form.qty)
    /\ cartUnits' = IF oracleKind = "cart" /\ SiteAccepts(form.qty)
                      THEN cartUnits + form.qty ELSE cartUnits
    /\ UNCHANGED <<stock, oracleKind, outOfStock, gi_pc, check_value, form,
                   inventory, accepted, try_count, count, calls, malformed, restores>>
    /\ UNCHANGED <<taskVars, runVars, comboVars, binVars, ctxVars>>

\* the reload of the retry loop is due after this many timeouts
ReloadDue(c) == c % ReloadEvery = 0

\* await page.reload(): a control the browser restores keeps its value, the
\* others load their default; the code does not fill or select again
FormAfterReload(f) ==
    [qty     |-> IF "qty" \in restores THEN f.qty ELSE FreshForm.qty,
     variant |-> IF "variant" \in restores THEN f.variant ELSE FreshForm.variant]

\* except TimeoutError: count += 1; every 5th time reload the page; continue
TQ_ClickTimeout ==
    /\ tq_pc = "click"
    /\ count < MaxClickTimeouts
    /\ count' = count + 1
    /\ \/ /\ tq_pc' = "click"
          /\ transient' = TRUE
          /\ form' = IF ReloadDue(count') THEN FormAfterReload(form) ELSE form
          /\ UNCHANGED <<gi_pc, check_value, inventory, accepted, try_count>>
       \/ /\ ReloadDue(count')
          /\ TQ_Raise
          /\ UNCHANGED form
    /\ UNCHANGED <<stock, oracleKind, outOfStock, cartUnits, respError, calls,
                   malformed, restores>>
    /\ UNCHANGED <<taskVars, runVars, comboVars, binVars, ctxVars>>

\* the wait for the cart/add response and the reading of its body
TQ_Response ==
    /\ tq_pc = "response"
    /\ \/ /\ tq_pc' = "idle"
          /\ CallReturns(~respError)
          /\ GIV_AfterTry(~respError)
          /\ UNCHANGED <<transient, malformed, restores>>
       \/ /\ malformed < MaxMalformed
          /\ tq_pc' = "idle"
          /\ CallReturns(TRUE)
          /\ GIV_AfterTry(TRUE)
          /\ malformed' = malformed + 1
          /\ UNCHANGED <<transient, restores>>
       \/ /\ TQ_Raise
          /\ UNCHANGED <<malformed, restores>>
    /\ UNCHANGED <<stock, oracleKind, outOfStock, cartUnits, count, respError, form,
                   calls>>
    /\ UNCHANGED <<taskVars, runVars, comboVars, binVars, ctxVars>>

\* the wait of page.expect_response for a response that arrived before it
\* was entered: no further cart/add response comes, the wait times out and
\* "except Exception" turns that into TimeoutError
TQ_Missed ==
    /\ tq_pc = "missed"
    /\ TQ_Raise
    /\ UNCHANGED <<stock, oracleKind, outOfStock, cartUnits, count, respError, form,
                   calls, malformed, restores>>
    /\ UNCHANGED <<taskVars, runVars, comboVars, binVars, ctxVars>>

NextProbe ==
    \/ GIV_Start
    \/ GIV_LoopHead
    \/ TQ_Fill
    \/ TQ_ClickOk
    \/ TQ_ClickTimeout
    \/ TQ_Response
    \/ TQ_Missed

\* a probe on its own: no task around it
InitProbeAlone ==
    InitProbe /\ IdleTask /\ IdleRun /\ IdleCombos /\ IdleBinary /\ IdleContexts

SpecProbe == InitProbeAlone /\ [][NextProbe]_vars

\* the probe in any browser: each control is restored by a reload or is not
InitForm ==
    /\ ProbeStart(SUBSET Controls)
    /\ IdleTask /\ IdleRun /\ IdleCombos /\ IdleBinary /\ IdleContexts

\* the first calls of the probe
NextForm ==
    /\ NextProbe
    /\ calls' <= MaxFormCalls

SpecForm == InitForm /\ [][NextForm]_vars

(***************************************************************************)
(* The probe against a cart that accumulates, on a site that answers every *)
(* fill, click and response wait in time and in the usual form.  The       *)
(* stocks 199 and 1000 take the search past its tenth call.                *)
(***************************************************************************)
CartStocks == (0 .. MaxStock) \cup {100, 199, 1000}

InitCartProbe ==
    /\ stock \in CartStocks
    /\ oracleKind = "cart"
    /\ outOfStock \in BOOLEAN
    /\ outOfStock => stock = 0
    /\ cartUnits = 0
    /\ gi_pc = "start"
    /\ check_value = GuessedInitialValue
    /\ inventory = 0
    /\ accepted = NoneAccepted
    /\ try_count = 0
    /\ tq_pc = "idle"
    /\ count = 0
    /\ respError = FALSE
    /\ form = SelectedForm
    /\ calls = 0
    /\ transient = FALSE
    /\ malformed = 0
    /\ restores = Controls
    /\ IdleTask
    /\ IdleRun
    /\ IdleCombos
    /\ IdleBinary
    /\ IdleContexts

\* a step of the probe in which nothing times out and the response has its
\* "data" member
NextCartProbe ==
    /\ NextProbe
    /\ ~transient'
    /\ malformed' = 0

\* the event loop goes on running the probe
SpecCartProbe ==
    InitCartProbe /\ [][NextCartProbe]_vars /\ WF_vars(NextCartProbe)

(***************************************************************************)
(* get_inventory_value of scraper.py: one call for check_value, then a     *)
(* binary search over 1 .. check_value - 1.  Its try_inventory_quantity    *)
(* answers for the site, or returns False after an exception; the site is  *)
(* the stateless threshold oracle.                                         *)
(***************************************************************************)
BinGuesses == (1 .. MaxGuess) \cup {GuessedInitialValue}

BinStocks == StockValues \cup {63, 64, 99}

InitBinary ==
    /\ bs_pc = "start"
    /\ left = 0
    /\ right = 0
    /\ mid = 0
    /\ result = 0
    /\ stock \in BinStocks
    /\ oracleKind = "threshold"
    /\ outOfStock = FALSE
    /\ cartUnits = 0
    /\ gi_pc = "idle"
    /\ check_value \in BinGuesses
    /\ inventory = 0
    /\ accepted = NoneAccepted
    /\ try_count = 0
    /\ tq_pc = "idle"
    /\ count = 0
    /\ respError = FALSE
    /\ form = FreshForm
    /\ calls = 0
    /\ transient = FALSE
    /\ malformed = 0
    /\ restores = Controls
    /\ IdleTask
    /\ IdleRun
    /\ IdleCombos
    /\ IdleContexts

\* await try_inventory_quantity(page, n) of scraper.py: the answer of the
\* site, or False from "except Exception"
BS_Try(n, availability) ==
    /\ calls' = calls + 1
    /\ \/ /\ availability = SiteAccepts(n)
          /\ UNCHANGED transient
       \/ /\ availability = FALSE
          /\ transient' = TRUE

\* if await try_inventory_quantity(page, check_value): return check_value;
\* else: left, right = 1, check_value - 1
BS_First ==
    /\ bs_pc = "start"
    /\ \E availability \in BOOLEAN :
          /\ BS_Try(check_value, availability)
          /\ IF availability
               THEN /\ result' = check_value
                    /\ bs_pc' = "done"
                    /\ UNCHANGED <<left, right>>
               ELSE /\ left' = 1
                    /\ right' = check_value - 1
                    /\ bs_pc' = "loop"
                    /\ UNCHANGED result
    /\ UNCHANGED mid
    /\ UNCHANGED <<stock, oracleKind, outOfStock, cartUnits, gi_pc, check_value,
                   inventory, try_count, tq_pc, count, respError, form, malformed, restores,
                   accepted>>
    /\ UNCHANGED <<taskVars, runVars, comboVars, ctxVars>>

\* a search that returns left, for comparison
BS_LoopReturnsLeft ==
    /\ bs_pc = "loop"
    /\ IF left <= right
         THEN /\ mid' = (left + right) \div 2
              /\ bs_pc' = "call"
              /\ UNCHANGED result
         ELSE /\ result' = left
              /\ bs_pc' = "done"
              /\ UNCHANGED mid
    /\ UNCHANGED <<left, right, calls, transient>>
    /\ UNCHANGED <<stock, oracleKind, outOfStock, cartUnits, gi_pc, check_value,
                   inventory, try_count, tq_pc, count, respError, form, malformed, restores,
                   accepted>>
    /\ UNCHANGED <<taskVars, runVars, comboVars, ctxVars>>

\* while left <= right: mid = (left + right) // 2; after the loop: return right
BS_Loop ==
    /\ bs_pc = "loop"
    /\ IF left <= right
         THEN /\ mid' = (left + right) \div 2
              /\ bs_pc' = "call"
              /\ UNCHANGED result
         ELSE /\ result' = right
              /\ bs_pc' = "done"
              /\ UNCHANGED mid
    /\ UNCHANGED <<left, right, calls, transient>>
    /\ UNCHANGED <<stock, oracleKind, outOfStock, cartUnits, gi_pc, check_value,
                   inventory, try_count, tq_pc, count, respError, form, malformed, restores,
                   accepted>>
    /\ UNCHANGED <<taskVars, runVars, comboVars, ctxVars>>

\* if await try_inventory_quantity(page, mid): left = mid + 1; else:
\* right = mid - 1
BS_Call ==
    /\ bs_pc = "call"
    /\ \E availability \in BOOLEAN :
          /\ BS_Try(mid, availability)
          /\ IF availability
               THEN /\ left' = mid + 1
                    /\ UNCHANGED right
               ELSE /\ right' = mid - 1
                    /\ UNCHANGED left
    /\ bs_pc' = "loop"
    /\ UNCHANGED <<mid, result>>
    /\ UNCHANGED <<stock, oracleKind, outOfStock, cartUnits, gi_pc, check_value,
                   inventory, try_count, tq_pc, count, respError, form, malformed, restores,
                   accepted>>
    /\ UNCHANGED <<taskVars, runVars, comboVars, ctxVars>>

NextBinary ==
    \/ BS_First
    \/ BS_Loop
    \/ BS_Call

SpecBinary == InitBinary /\ [][NextBinary]_vars

(***************************************************************************)
(* get_all_combinations: itertools.product of the option lists, the last   *)
(* list varying fastest.                                                   *)
(***************************************************************************)
RECURSIVE AppendAll(_, _)
\* [r + (o,) for r in rest]: the option put last, for comparison
AppendAll(o, rest) ==
    IF rest = <<>> THEN <<>>
    ELSE <<(Head(rest) \o <<o>>)>> \o AppendAll(o, Tail(rest))

RECURSIVE PrependAll(_, _)
\* [(o,) + r for r in rest], in the order of rest
PrependAll(o, rest) ==
    IF rest = <<>> THEN <<>>
    ELSE <<(<<o>> \o Head(rest))>> \o PrependAll(o, Tail(rest))

RECURSIVE ProductFrom(_, _)
\* the tuples that start with an option of `options`, in the order of options
ProductFrom(options, rest) ==
    IF options = <<>> THEN <<>>
    ELSE PrependAll(Head(options), rest) \o ProductFrom(Tail(options), rest)

\* an enumeration of the first list alone, nothing for no list, for comparison
FirstListOnly(lists) ==
    IF lists = <<>> THEN <<>>
    ELSE [k \in 1 .. Len(Head(lists)) |-> <<Head(lists)[k]>>]

RECURSIVE get_all_combinations(_)
get_all_combinations(lists) ==
    IF lists = <<>> THEN << <<>> >>
    ELSE ProductFrom(Head(lists), get_all_combinations(Tail(lists)))

\* the option values a select may offer
OptionNames == {"Red", "Blue", "S", "M"}

\* the option lists of one select: get_attr_values reads each option once
OptionListChoices ==
    UNION { { f \in [1 .. k -> OptionNames] :
                \A i, j \in 1 .. k : i # j => f[i] # f[j] } :
            k \in 0 .. MaxOptions }

\* attrs_dict.values(): one option list per select, in the order of the page
ArgLists == UNION { [1 .. n -> OptionListChoices] : n \in 0 .. MaxAxes }

InitCombos ==
    /\ gc_pc = "start"
    /\ arg_lists \in ArgLists
    /\ combinations = <<>>
    /\ combinations_again = <<>>
    /\ sd_pc = "idle"
    /\ standard_data = <<>>
    /\ IdleProbe
    /\ IdleTask
    /\ IdleRun
    /\ IdleBinary
    /\ IdleContexts

\* check_handled_url: all_combinations = get_all_combinations(*values)
GC_Call ==
    /\ gc_pc = "start"
    /\ combinations' = get_all_combinations(arg_lists)
    /\ gc_pc' = "called"
    /\ UNCHANGED <<arg_lists, combinations_again, sd_pc, standard_data>>
    /\ UNCHANGED <<probeVars, taskVars, runVars, binVars, ctxVars>>

\* inventory_identifier: the call is made again on the same page
GC_CallAgain ==
    /\ gc_pc = "called"
    /\ combinations_again' = get_all_combinations(arg_lists)
    /\ gc_pc' = "again"
    /\ UNCHANGED <<arg_lists, combinations, sd_pc, standard_data>>
    /\ UNCHANGED <<probeVars, taskVars, runVars, binVars, ctxVars>>

NextCombos ==
    \/ GC_Call
    \/ GC_CallAgain

SpecCombos == InitCombos /\ [][NextCombos]_vars

(***************************************************************************)
(* data_manipulation_utils.py, standardize_data and rename_columns, called *)
(* on their own.  A record of data is a function from its keys to their    *)
(* values.                                                                 *)
(***************************************************************************)
StockKey == "Current stock"

\* the stocks of the records: none, one, and either side of "more than 5"
ReportStocks == {0, 1, 5, 6}

\* a record of an unavailable product (no droplist field) or of a variant
ReportRecords ==
    { (StockKey :> q) @@ ("product_name" :> "p") : q \in ReportStocks }
    \cup { (StockKey :> q) @@ ("product_name" :> "p")
              @@ ("1DroplistDesc" :> "Size") @@ ("1DroplistValue" :> "S") :
           q \in ReportStocks }

ReportLists == UNION { [1 .. n -> ReportRecords] : n \in 0 .. MaxReportLen }

\* column_mapping, in the order of the dictionary
column_mapping ==
    << <<"1DroplistDesc", "DroplistDesc1">>, <<"1DroplistValue", "DroplistValue1">>,
       <<"2DroplistDesc", "DroplistDesc2">>, <<"2DroplistValue", "DroplistValue2">>,
       <<"3DroplistDesc", "DroplistDesc3">>, <<"3DroplistValue", "DroplistValue3">>,
       <<"4DroplistDesc", "DroplistDesc4">>, <<"4DroplistValue", "DroplistValue4">> >>

\* product_item.get(key, default)
get(item, key, default) == IF key \in DOMAIN item THEN item[key] ELSE default

\* if old_key in new_item: new_item[new_key] = new_item.pop(old_key)
\* else: new_item[new_key] = ''
RenameKey(item, old_key, new_key) ==
    IF old_key \in DOMAIN item
      THEN [k \in (DOMAIN item \ {old_key}) \cup {new_key} |->
               IF k = new_key THEN item[old_key] ELSE item[k]]
      ELSE [k \in DOMAIN item \cup {new_key} |->
               IF k = new_key THEN "" ELSE item[k]]

\* new_item = item.copy(); for old_key, new_key in cols.items(): ...
RECURSIVE RenameItem(_, _)
RenameItem(item, cols) ==
    IF cols = <<>> THEN item
    ELSE RenameItem(RenameKey(item, Head(cols)[1], Head(cols)[2]), Tail(cols))

rename_columns(data_container, cols) ==
    [i \in 1 .. Len(data_container) |-> RenameItem(data_container[i], cols)]

IsOutOfStock(product_item) == get(product_item, StockKey, 0) = 0
IsInStock(product_item) == get(product_item, StockKey, 0) > 0
IsMoreThan5(product_item) == get(product_item, StockKey, 0) > 5
IsOnly1(product_item) == get(product_item, StockKey, 0) = 1

\* the four empty categories
NoProducts ==
    [out_of_stocks_products |-> <<>>, in_stocks_products |-> <<>>,
     more_5_stocks_products |-> <<>>, only_1_stocks_products |-> <<>>]

\* if not data: return {'data': {...}}
EmptyReport(d) == [data |-> NoProducts]

standardize_data(d) ==
    IF d = <<>>
      THEN EmptyReport(d)
      ELSE LET out_of_stock      == SelectSeq(d, IsOutOfStock)
               in_stock          == SelectSeq(d, IsInStock)
               more_than_5_stock == SelectSeq(d, IsMoreThan5)
               only_1_stock      == SelectSeq(d, IsOnly1)
           IN  [data |->
                  [out_of_stocks_products |-> rename_columns(out_of_stock, column_mapping),
                   in_stocks_products |-> rename_columns(in_stock, column_mapping),
                   more_5_stocks_products |->
                       rename_columns(more_than_5_stock, column_mapping),
                   only_1_stocks_products |->
                       rename_columns(only_1_stock, column_mapping)],
                summary |->
                  [total_products |-> Len(d),
                   out_of_stock_count |-> Len(out_of_stock),
                   in_stock_count |-> Len(in_stock),
                   low_stock_count |-> Len(only_1_stock),
                   well_stocked_count |-> Len(more_than_5_stock)]]

InitReport ==
    /\ sd_pc = "start"
    /\ standard_data = <<>>
    /\ data \in ReportLists
    /\ data0 = data
    /\ gc_pc = "idle"
    /\ arg_lists = <<>>
    /\ combinations = <<>>
    /\ combinations_again = <<>>
    /\ hu_pc = "idle"
    /\ axes = <<>>
    /\ unavailable = FALSE
    /\ comb_i = 0
    /\ failed_urls = {}
    /\ data_pkl = <<>>
    /\ output_csv = <<>>
    /\ failed_pkl = {}
    /\ failure = "none"
    /\ IdleProbe
    /\ IdleRun
    /\ IdleBinary
    /\ IdleContexts

\* standardized_data = standardize_data(data): the comprehensions build new
\* lists, rename_columns works on item.copy(): data is as it was
SD_Call ==
    /\ sd_pc = "start"
    /\ standard_data' = standardize_data(data)
    /\ sd_pc' = "done"
    /\ UNCHANGED <<gc_pc, arg_lists, combinations, combinations_again>>
    /\ UNCHANGED <<probeVars, taskVars, runVars, binVars, ctxVars>>

NextReport == SD_Call

SpecReport == InitReport /\ [][NextReport]_vars

(***************************************************************************)
(* One product task: handle_url, check_handled_url, inventory_identifier.  *)
(***************************************************************************)
\* the product of the task, and two other products of the catalog
TaskUrl == "u1"
OtherUrl == "u2"
ThirdUrl == "u3"

\* attrs_dict.values(): the option lists of the page's selects
OptionLists == [i \in 1 .. Len(axes) |-> axes[i].options]

all_combinations == get_all_combinations(OptionLists)

\* get_product_item: the record of the page, stock 0 and no droplist field
primary_item(u) ==
    [URL |-> u, product_name |-> "name of " \o u, SKU |-> "sku of " \o u,
     Droplist |-> <<>>, stock |-> 0]

\* a record that is given the option fields only, for comparison
unprobed_item(u, combination, quantity) ==
    [primary_item(u) EXCEPT
        !.Droplist = [i \in 1 .. Len(combination) |->
                         <<axes[i].name, combination[i]>>]]

\* inventory_identifier: return len(all_combinations)
inventory_identifier_result == Len(all_combinations)

\* inventory_identifier: the record of one combination
variation_item(u, combination, quantity) ==
    [primary_item(u) EXCEPT
        !.Droplist = [i \in 1 .. Len(combination) |->
                         <<axes[i].name, combination[i]>>],
        !.stock = quantity]

\* the select layouts a product page may have
PageLayouts ==
    { <<>>,
      << [name |-> "Size", options |-> <<"S", "M">>] >>,
      << [name |-> "Color", options |-> <<"Red">>],
         [name |-> "Size", options |-> <<"S", "M">>] >>,
      << [name |-> "Size", options |-> <<>>] >> }

\* the records a finished earlier run left for the combinations cs of u
RECURSIVE RecordsOf(_, _, _)
RecordsOf(u, layout, cs) ==
    IF cs = <<>> THEN <<>>
    ELSE << [primary_item(u) EXCEPT
                !.Droplist = [i \in 1 .. Len(Head(cs)) |->
                                 <<layout[i].name, Head(cs)[i]>>],
                !.stock = 1] >>
         \o RecordsOf(u, layout, Tail(cs))

\* what load_existing_data may hand to the run: nothing, the records of the
\* task's product (all, or the first only: a crash in mid-product), and the
\* records of other products before them
ReloadedData(layout) ==
    LET cs   == get_all_combinations([i \in 1 .. Len(layout) |-> layout[i].options])
        own  == { <<>>, RecordsOf(TaskUrl, layout, cs),
                  RecordsOf(TaskUrl, layout, IF cs = <<>> THEN <<>> ELSE <<Head(cs)>>) }
        other == { <<>>, <<primary_item(OtherUrl)>>,
                   <<primary_item(OtherUrl), primary_item(ThirdUrl)>> }
    IN  { o \o w : o \in other, w \in own }

TaskStocks == {0, 7}

InitTask ==
    /\ stock \in TaskStocks
    /\ oracleKind = "cart"
    /\ outOfStock \in BOOLEAN
    /\ outOfStock => stock = 0
    /\ cartUnits = 0
    /\ gi_pc = "idle"
    /\ check_value = GuessedInitialValue
    /\ inventory = 0
    /\ accepted = NoneAccepted
    /\ try_count = 0
    /\ tq_pc = "idle"
    /\ count = 0
    /\ respError = FALSE
    /\ form = FreshForm
    /\ calls = 0
    /\ transient = FALSE
    /\ malformed = 0
    /\ restores = Controls
    /\ hu_pc = "ctx"
    /\ axes \in PageLayouts
    /\ unavailable \in BOOLEAN
    /\ comb_i = 0
    /\ data \in ReloadedData(axes)
    /\ data0 = data
    /\ failed_urls = {}
    /\ data_pkl = data
    /\ output_csv = data
    /\ failed_pkl = {}
    /\ failure = "none"
    /\ IdleRun
    /\ IdleCombos
    /\ IdleBinary
    /\ IdleContexts

\* check_handled_url: the length of the combinations against the length of
\* the list of comparisons, one per record of data
check_handled_url(u, d) ==
    Len(all_combinations) = Len([i \in 1 .. Len(d) |-> d[i].product_name = u])

\* "except Exception": the URL joins failed_urls, the finally block follows
HU_Except(why) ==
    /\ failed_urls' = failed_urls \cup {TaskUrl}
    /\ failure' = why
    /\ hu_pc' = "finally"
    /\ UNCHANGED <<axes, unavailable, comb_i, data, data_pkl, output_csv, failed_pkl, data0>>

\* "except TimeoutError" / "except NotImplementedError": as above, and
\* failed_urls.pkl is written
HU_ExceptDump(why) ==
    /\ failed_urls' = failed_urls \cup {TaskUrl}
    /\ failed_pkl' = failed_urls'
    /\ failure' = why
    /\ hu_pc' = "finally"
    /\ UNCHANGED <<axes, unavailable, comb_i, data, data_pkl, output_csv, data0>>

\* what handle_url has open in the browser: its context and its page
TaskHandles == {"context", "page"}

\* ctxVars but for the open contexts and pages
ctxRest == <<ct_pc, context_of, cart_of, added_by>>

\* context = await browser.new_context(); page = await context.new_page():
\* either may raise, and the try statement has not begun
HU_NewContext ==
    /\ hu_pc = "ctx"
    /\ \/ /\ hu_pc' = "goto"
          /\ contexts' = TaskHandles
       \/ /\ hu_pc' = "raised"
          /\ contexts' \in {{}, {"context"}}
    /\ UNCHANGED <<axes, unavailable, comb_i, data, failed_urls, data_pkl, output_csv,
                   failed_pkl, data0, failure>>
    /\ UNCHANGED probeVars
    /\ UNCHANGED <<runVars, comboVars, binVars, ctxRest>>

\* await page.goto(url)
HU_Goto ==
    /\ hu_pc = "goto"
    /\ \/ /\ hu_pc' = "check"
          /\ UNCHANGED <<axes, unavailable, comb_i, data, failed_urls,
                         data_pkl, output_csv, failed_pkl, data0, failure>>
       \/ HU_Except("other")
    /\ UNCHANGED probeVars
    /\ UNCHANGED <<runVars, comboVars, binVars, ctxVars>>

\* if await check_handled_url(page, data): return
HU_CheckHandled ==
    /\ hu_pc = "check"
    /\ \/ /\ hu_pc' = IF check_handled_url(TaskUrl, data) THEN "finally" ELSE "item"
          /\ UNCHANGED <<axes, unavailable, comb_i, data, failed_urls,
                         data_pkl, output_csv, failed_pkl, data0, failure>>
       \/ HU_Except("other")
    /\ UNCHANGED probeVars
    /\ UNCHANGED <<runVars, comboVars, binVars, ctxVars>>

\* the popup, get_product_item and the Unavailable button
HU_ProductItem ==
    /\ hu_pc = "item"
    /\ \/ /\ unavailable
          /\ data' = Append(data, primary_item(TaskUrl))
          /\ hu_pc' = "finally"
          /\ UNCHANGED <<axes, unavailable, comb_i, failed_urls, data_pkl, output_csv,
                         failed_pkl, data0, failure>>
       \/ /\ ~unavailable
          /\ hu_pc' = "ident"
          /\ UNCHANGED <<axes, unavailable, comb_i, data, failed_urls,
                         data_pkl, output_csv, failed_pkl, data0, failure>>
       \/ HU_Except("other")
    /\ UNCHANGED probeVars
    /\ UNCHANGED <<runVars, comboVars, binVars, ctxVars>>

\* inventory_identifier: get_options_dict, the NotImplementedError of a page
\* with no select, and get_all_combinations
II_Options ==
    /\ hu_pc = "ident"
    /\ \/ /\ axes = <<>>
          /\ HU_ExceptDump("notimpl")
       \/ /\ axes # <<>>
          /\ comb_i' = 1
          /\ hu_pc' = IF all_combinations = <<>> THEN "finally" ELSE "select"
          /\ UNCHANGED <<axes, unavailable, data, failed_urls, data_pkl, output_csv,
                         failed_pkl, data0, failure>>
       \/ HU_Except("other")
    /\ UNCHANGED probeVars
    /\ UNCHANGED <<runVars, comboVars, binVars, ctxVars>>

\* the head of "for combination in all_combinations": the options are
\* selected, the item and the select labels are read, the probe starts
II_Select ==
    /\ hu_pc = "select"
    /\ \/ /\ hu_pc' = "probe"
          /\ gi_pc' = "start"
          /\ check_value' = GuessedInitialValue
          /\ cartUnits' = 0
          /\ calls' = 0
          /\ form' = [form EXCEPT !.variant = "chosen"]
          /\ UNCHANGED <<axes, unavailable, comb_i, data, failed_urls,
                         data_pkl, output_csv, failed_pkl, data0, failure>>
          /\ UNCHANGED <<stock, oracleKind, outOfStock, inventory, accepted, try_count,
                         tq_pc, count, respError, transient, malformed, restores>>
       \/ /\ HU_ExceptDump("select")
          /\ UNCHANGED probeVars
       \/ /\ HU_Except("other")
          /\ UNCHANGED probeVars
    /\ UNCHANGED <<runVars, comboVars, binVars, ctxVars>>

\* get_inventory_value has returned or raised: its locals are gone
ProbeFrameGone ==
    /\ gi_pc' = "idle"
    /\ check_value' = GuessedInitialValue
    /\ inventory' = 0
    /\ accepted' = NoneAccepted
    /\ try_count' = 0
    /\ count' = 0
    /\ respError' = FALSE
    /\ UNCHANGED form
    /\ calls' = 0
    /\ UNCHANGED <<stock, oracleKind, outOfStock, cartUnits, tq_pc, transient,
                   malformed, restores>>

\* a task that puts the new record in front of data, for comparison
II_Prepend ==
    /\ hu_pc = "probe"
    /\ gi_pc = "done"
    /\ data' = <<variation_item(TaskUrl, all_combinations[comb_i], inventory)>> \o data
    /\ comb_i' = comb_i + 1
    /\ hu_pc' = IF comb_i < Len(all_combinations) THEN "select" ELSE "finally"
    /\ ProbeFrameGone
    /\ UNCHANGED <<axes, unavailable, failed_urls, data_pkl, output_csv, failed_pkl,
                   data0, failure>>
    /\ UNCHANGED <<runVars, comboVars, binVars, ctxVars>>

\* the probe returned: variation_item['Current stock'] = inventory_quantity;
\* data.append(variation_item); the next combination, or the return
II_Append ==
    /\ hu_pc = "probe"
    /\ gi_pc = "done"
    /\ data' = Append(data, variation_item(TaskUrl, all_combinations[comb_i], inventory))
    /\ comb_i' = comb_i + 1
    /\ hu_pc' = IF comb_i < Len(all_combinations) THEN "select" ELSE "finally"
    /\ ProbeFrameGone
    /\ UNCHANGED <<axes, unavailable, failed_urls, data_pkl, output_csv, failed_pkl,
                   data0, failure>>
    /\ UNCHANGED <<runVars, comboVars, binVars, ctxVars>>

\* the TimeoutError of try_inventory_quantity leaves get_inventory_value and
\* inventory_identifier and is caught by handle_url's "except TimeoutError"
HU_CatchTimeout ==
    /\ hu_pc = "probe"
    /\ gi_pc = "raised"
    /\ HU_ExceptDump("oracle")
    /\ ProbeFrameGone
    /\ UNCHANGED <<runVars, comboVars, binVars, ctxVars>>

\* the task is at an await: of handle_url or inventory_identifier, of
\* check_out_of_stock, or inside try_inventory_quantity
AtAwait ==
    \/ hu_pc \in {"ctx", "goto", "check", "item", "ident", "select"}
    \/ hu_pc = "probe" /\ (gi_pc = "start" \/ tq_pc # "idle")

\* the user interrupts the run: asyncio.run cancels the task at its await.
\* The CancelledError passes "except Exception" of try_inventory_quantity
\* and of handle_url (it is a BaseException); the frames of the probe are
\* gone, handle_url's finally block runs (there is none around new_context)
HU_Cancelled ==
    /\ AtAwait
    /\ hu_pc' = IF hu_pc = "ctx" THEN "raised" ELSE "finally"
    /\ failure' = "cancelled"
    /\ gi_pc' = "idle"
    /\ tq_pc' = "idle"
    /\ check_value' = GuessedInitialValue
    /\ inventory' = 0
    /\ accepted' = NoneAccepted
    /\ try_count' = 0
    /\ count' = 0
    /\ respError' = FALSE
    /\ UNCHANGED form
    /\ calls' = 0
    /\ UNCHANGED <<stock, oracleKind, outOfStock, cartUnits, transient,
                   malformed, restores>>
    /\ UNCHANGED <<axes, unavailable, comb_i, data, failed_urls, data_pkl,
                   output_csv, failed_pkl, data0>>
    /\ contexts' \in IF hu_pc = "ctx" THEN {{}, {"context"}} ELSE {contexts}
    /\ UNCHANGED <<runVars, comboVars, binVars, ctxRest>>

\* a finally block that closes the page and writes nothing, for comparison
HU_FinallyNoWrite ==
    /\ hu_pc = "finally"
    /\ hu_pc' = "close"
    /\ UNCHANGED <<axes, unavailable, comb_i, data, failed_urls, data_pkl,
                   output_csv, failed_pkl, data0, failure>>
    /\ UNCHANGED probeVars
    /\ UNCHANGED <<runVars, comboVars, binVars, ctxVars>>

\* finally: export(data); pickle.dump(data, open('data.pkl', 'wb'))
HU_Finally ==
    /\ hu_pc = "finally"
    /\ \/ /\ output_csv' = data
          /\ data_pkl' = data
          /\ hu_pc' = "close"
       \/ /\ hu_pc' = "raised"
          /\ UNCHANGED <<data_pkl, output_csv>>
    /\ UNCHANGED <<axes, unavailable, comb_i, data, failed_urls, failed_pkl,
                   data0, failure>>
    /\ UNCHANGED probeVars
    /\ UNCHANGED <<runVars, comboVars, binVars, ctxVars>>

\* await page.close(); await context.close(): when the first raises the
\* second is not reached
HU_Close ==
    /\ hu_pc = "close"
    /\ \/ /\ hu_pc' = "done"
          /\ contexts' = {}
       \/ /\ hu_pc' = "raised"
          /\ contexts' \in {contexts, contexts \ {"page"}}
    /\ UNCHANGED <<axes, unavailable, comb_i, data, failed_urls, data_pkl, output_csv,
                   failed_pkl, data0, failure>>
    /\ UNCHANGED probeVars
    /\ UNCHANGED <<runVars, comboVars, binVars, ctxRest>>

NextTask ==
    \/ HU_NewContext
    \/ HU_Goto
    \/ HU_CheckHandled
    \/ HU_ProductItem
    \/ II_Options
    \/ II_Select
    \/ GIV_Start
    \/ GIV_LoopHead
    \/ TQ_Fill
    \/ TQ_ClickOk
    \/ TQ_ClickTimeout
    \/ TQ_Response
    \/ TQ_Missed
    \/ II_Append
    \/ HU_CatchTimeout
    \/ HU_Cancelled
    \/ HU_Finally
    \/ HU_Close

SpecTask == InitTask /\ [][NextTask]_vars

(***************************************************************************)
(* The run: run(), gather_with_concurrency, the handle_listing tasks and   *)
(* the handle_url tasks as far as they touch what tasks share (the         *)
(* semaphore, products_urls.pkl, data, failed_urls, data.pkl, the          *)
(* browser).  A task runs without another task in between from one await   *)
(* to the next; consecutive awaits that touch nothing shared are one step  *)
(* with the step that follows them, each with all its outcomes.  The probe *)
(* of a combination is one step here; SpecTask follows it call by call.    *)
(***************************************************************************)
Listings == 1 .. NumListings

\* listing_urls, by the last part of the path
ListingUrls == <<"bow-accessories", "arrows", "components", "gear">>

ListingUrl(l) == ListingUrls[l]

Urls == {TaskUrl, OtherUrl}

UrlList == <<TaskUrl, OtherUrl>>

\* get_page_products_urls: the product links of page p of listing l
PageUrls(l, p) == { UrlList[((l + p) % Len(UrlList)) + 1] }

\* the combinations of a product page
NumCombos(u) == IF u = TaskUrl THEN 2 ELSE 1

\* the record a product task appends for its k-th combination (the probed
\* quantity is left out of the run's model)
RunRecord(u, k) ==
    [primary_item(u) EXCEPT !.Droplist = << <<"Size", k>> >>]

\* a semaphore that lets every task in, for comparison
NeverLocked(v) == FALSE

\* asyncio.Semaphore: locked when its value is used up
SemLocked(v) == v <= 0

ListingActive == {"open", "page", "extract", "close"}

ProductActive == {"open", "body", "dump", "close"}

\* a task is inside pickle.dump(data, open('data.pkl', 'wb')): no await, so
\* no other task runs until the dump is over
Dumping == \E u \in Urls : pt_pc[u] = "dump"

\* run() at the start of the listing batch, its semaphore with limit slots
RunStartWith(limit, tabs) ==
    /\ phase = "listing"
    /\ pages_number \in tabs
    /\ sem_value = limit
    /\ gather_raised = FALSE
    /\ lt_pc = [l \in Listings |-> "wait"]
    /\ page_id = [l \in Listings |-> 0]
    /\ total_pages = [l \in Listings |-> 0]
    /\ products_urls = [l \in Listings |-> {}]
    /\ products_pkl \in SUBSET Urls
    /\ returned = {}
    /\ remerged = {}
    /\ pt_pc = [u \in Urls |-> "none"]
    /\ appended = [u \in Urls |-> 0]
    /\ data_pkl_torn = FALSE
    /\ data = <<>>
    /\ data0 = <<>>
    /\ failed_urls = {}
    /\ data_pkl = <<>>
    /\ output_csv = <<>>
    /\ failed_pkl = {}
    /\ hu_pc = "idle"
    /\ axes = <<>>
    /\ unavailable = FALSE
    /\ comb_i = 0
    /\ failure = "none"
    /\ IdleProbe
    /\ IdleCombos
    /\ IdleBinary
    /\ IdleContexts

\* a run whose number of tabs is any of the valid answers up to MaxTabs
RunStart(limit) == RunStartWith(limit, 1 .. MaxTabs)

InitRun == RunStart(ListingLimit)

\* "async with semaphore" of sem_task: the next listing task in line takes
\* a slot (the waiters of an asyncio.Semaphore are served in order)
LT_Acquire(l) ==
    /\ phase = "listing"
    /\ lt_pc[l] = "wait"
    /\ \A k \in Listings : k < l => lt_pc[k] # "wait"
    /\ ~SemLocked(sem_value)
    /\ sem_value' = sem_value - 1
    /\ lt_pc' = [lt_pc EXCEPT ![l] = "open"]
    /\ UNCHANGED <<phase, pages_number, gather_raised, page_id, total_pages,
                   products_urls, products_pkl, returned, remerged, pt_pc, appended,
                   data_pkl_torn>>
    /\ UNCHANGED <<probeVars, taskVars, comboVars, binVars, ctxVars>>

\* the exception leaves the task (its locals are gone): sem_task releases
\* the slot, gather hands the exception to run()
LT_Raise(l) ==
    /\ lt_pc' = [lt_pc EXCEPT ![l] = "raised"]
    /\ sem_value' = sem_value + 1
    /\ gather_raised' = TRUE
    /\ page_id' = [page_id EXCEPT ![l] = 0]
    /\ total_pages' = [total_pages EXCEPT ![l] = 0]
    /\ UNCHANGED <<products_urls, products_pkl, returned, remerged>>

\* context = await browser.new_context(); page = await context.new_page(),
\* outside the try; then await page.goto(listing_url); total_pages = await
\* get_total_pages(page); await page.close(), or "except Exception"
LT_Open(l) ==
    /\ phase = "listing"
    /\ lt_pc[l] = "open"
    /\ \/ /\ \E n \in 1 .. MaxPages :
                total_pages' = [total_pages EXCEPT ![l] = n]
          /\ page_id' = [page_id EXCEPT ![l] = 1]
          /\ lt_pc' = [lt_pc EXCEPT ![l] = "page"]
          /\ UNCHANGED <<sem_value, gather_raised, products_urls,
                         products_pkl, returned, remerged>>
       \/ /\ lt_pc' = [lt_pc EXCEPT ![l] = "close"]
          /\ UNCHANGED <<sem_value, gather_raised, page_id, total_pages,
                         products_urls, products_pkl, returned, remerged>>
       \/ LT_Raise(l)
    /\ UNCHANGED <<phase, pages_number, pt_pc, appended, data_pkl_torn>>
    /\ UNCHANGED <<probeVars, taskVars, comboVars, binVars, ctxVars>>

\* a load that never finds the file, for comparison
NoProductsFile == {}

\* load_products_urls: the set in products_urls.pkl, set() without the file
load_products_urls == products_pkl

\* the loop goes to the next page, or ends
LT_NextPage(l) ==
    IF page_id[l] < total_pages[l]
      THEN /\ page_id' = [page_id EXCEPT ![l] = page_id[l] + 1]
           /\ lt_pc' = [lt_pc EXCEPT ![l] = "page"]
      ELSE /\ lt_pc' = [lt_pc EXCEPT ![l] = "close"]
           /\ UNCHANGED page_id

\* for page_id in range(1, total_pages + 1): the page's own context and page
\* (an exception there is outside the inner try and ends the loop); await
\* page.goto(listing_url + '?page=..') (an exception is logged, the next
\* page follows); products_urls = load_products_urls(); then the await of
\* get_page_products_urls
LT_PageLoad(l) ==
    /\ phase = "listing"
    /\ lt_pc[l] = "page"
    /\ \/ /\ products_urls' = [products_urls EXCEPT ![l] = load_products_urls]
          /\ lt_pc' = [lt_pc EXCEPT ![l] = "extract"]
          /\ UNCHANGED page_id
       \/ /\ LT_NextPage(l)
          /\ UNCHANGED products_urls
       \/ /\ lt_pc' = [lt_pc EXCEPT ![l] = "close"]
          /\ UNCHANGED <<page_id, products_urls>>
    /\ UNCHANGED <<phase, pages_number, sem_value, gather_raised,
                   total_pages, products_pkl, returned, remerged, pt_pc, appended,
                   data_pkl_torn>>
    /\ UNCHANGED <<probeVars, taskVars, comboVars, binVars, ctxVars>>

\* new_urls = (the awaited) get_page_products_urls(page); products_urls =
\* products_urls.union(new_urls); pickle.dump(products_urls, ...), or the
\* inner "except Exception"; finally the page and its context are closed
\* (an exception of a close ends the loop).  The local set is not read
\* again before the next load rebinds it.
LT_Extract(l) ==
    /\ phase = "listing"
    /\ lt_pc[l] = "extract"
    /\ \/ LET new_urls == PageUrls(l, page_id[l])
          IN  /\ products_pkl' = products_urls[l] \cup new_urls
              /\ returned' = returned \cup new_urls
              /\ remerged' = remerged \cup (new_urls \cap returned)
       \/ UNCHANGED <<products_pkl, returned, remerged>>
    /\ \/ LT_NextPage(l)
       \/ /\ lt_pc' = [lt_pc EXCEPT ![l] = "close"]
          /\ UNCHANGED page_id
    /\ products_urls' = [products_urls EXCEPT ![l] = {}]
    /\ UNCHANGED <<phase, pages_number, sem_value, gather_raised,
                   total_pages, pt_pc, appended, data_pkl_torn>>
    /\ UNCHANGED <<probeVars, taskVars, comboVars, binVars, ctxVars>>

\* finally: await context.close(); the task ends (its locals are gone) and
\* the slot is released
LT_Close(l) ==
    /\ phase = "listing"
    /\ lt_pc[l] = "close"
    /\ \/ /\ lt_pc' = [lt_pc EXCEPT ![l] = "done"]
          /\ sem_value' = sem_value + 1
          /\ page_id' = [page_id EXCEPT ![l] = 0]
          /\ total_pages' = [total_pages EXCEPT ![l] = 0]
          /\ UNCHANGED <<gather_raised, products_urls, products_pkl, returned, remerged>>
       \/ LT_Raise(l)
    /\ UNCHANGED <<phase, pages_number, pt_pc, appended, data_pkl_torn>>
    /\ UNCHANGED <<probeVars, taskVars, comboVars, binVars, ctxVars>>

\* "async with semaphore" of sem_task: a waiting product task takes a slot
\* (list(products_urls) gives the tasks of the batch no fixed order)
PT_Acquire(u) ==
    /\ phase = "products"
    /\ ~Dumping
    /\ pt_pc[u] = "wait"
    /\ ~SemLocked(sem_value)
    /\ sem_value' = sem_value - 1
    /\ pt_pc' = [pt_pc EXCEPT ![u] = "open"]
    /\ UNCHANGED <<phase, pages_number, gather_raised, lt_pc, page_id,
                   total_pages, products_urls, products_pkl, returned, remerged,
                   appended, data_pkl_torn>>
    /\ UNCHANGED <<probeVars, taskVars, comboVars, binVars, ctxVars>>

\* the exception leaves handle_url: sem_task releases the slot, gather hands
\* the exception to run()
PT_Raise(u) ==
    /\ pt_pc' = [pt_pc EXCEPT ![u] = "raised"]
    /\ sem_value' = sem_value + 1
    /\ gather_raised' = TRUE
    /\ UNCHANGED <<data_pkl, output_csv, data_pkl_torn>>

\* finally: export(data), which may raise, then pickle.dump(data,
\* open('data.pkl', 'wb')): open() truncates the file, dump() fills it
PT_EnterFinally(u) ==
    \/ /\ pt_pc' = [pt_pc EXCEPT ![u] = "dump"]
       /\ output_csv' = data'
       /\ data_pkl_torn' = TRUE
       /\ data_pkl' = <<>>
       /\ UNCHANGED <<sem_value, gather_raised>>
    \/ PT_Raise(u)

\* check_handled_url for the page of u: see check_handled_url above
RunHandled(u) ==
    NumCombos(u) = Len([i \in 1 .. Len(data) |-> data[i].product_name = u])

\* context = await browser.new_context(); page = await context.new_page(),
\* outside the try; await page.goto(url), or "except Exception"; if await
\* check_handled_url(page, data): return; the finally block where due
PT_Open(u) ==
    /\ phase = "products"
    /\ ~Dumping
    /\ pt_pc[u] = "open"
    /\ UNCHANGED <<hu_pc, axes, unavailable, comb_i, data, failed_pkl, data0,
                   failure>>
    /\ \/ /\ PT_Raise(u)
          /\ UNCHANGED failed_urls
       \/ /\ failed_urls' = failed_urls \cup {u}
          /\ PT_EnterFinally(u)
       \/ /\ RunHandled(u)
          /\ PT_EnterFinally(u)
          /\ UNCHANGED failed_urls
       \/ /\ ~RunHandled(u)
          /\ pt_pc' = [pt_pc EXCEPT ![u] = "body"]
          /\ UNCHANGED <<sem_value, gather_raised, data_pkl, output_csv, data_pkl_torn,
                         failed_urls>>
    /\ UNCHANGED <<phase, pages_number, lt_pc, page_id, total_pages,
                   products_urls, products_pkl, returned, remerged, appended>>
    /\ UNCHANGED <<probeVars, comboVars, binVars, ctxVars>>

\* inventory_identifier: the next combination is selected and probed, and
\* data.append(variation_item); after the last one the finally block
PT_Append(u) ==
    /\ phase = "products"
    /\ ~Dumping
    /\ pt_pc[u] = "body"
    /\ appended[u] < NumCombos(u)
    /\ data' = Append(data, RunRecord(u, appended[u] + 1))
    /\ appended' = [appended EXCEPT ![u] = appended[u] + 1]
    /\ IF appended'[u] = NumCombos(u)
         THEN PT_EnterFinally(u)
         ELSE UNCHANGED <<pt_pc, sem_value, gather_raised, data_pkl, output_csv,
                          data_pkl_torn>>
    /\ UNCHANGED <<phase, pages_number, lt_pc, page_id, total_pages,
                   products_urls, products_pkl, returned, remerged>>
    /\ UNCHANGED <<hu_pc, axes, unavailable, comb_i, failed_urls, failed_pkl,
                   data0, failure>>
    /\ UNCHANGED <<probeVars, comboVars, binVars, ctxVars>>

\* an exception in the body: "except TimeoutError" (failed_urls.pkl is
\* written) or "except Exception" (it is not), then the finally block
PT_BodyFail(u) ==
    /\ phase = "products"
    /\ ~Dumping
    /\ pt_pc[u] = "body"
    /\ UNCHANGED <<hu_pc, axes, unavailable, comb_i, data, data0, failure>>
    /\ failed_urls' = failed_urls \cup {u}
    /\ \/ failed_pkl' = failed_urls'
       \/ UNCHANGED failed_pkl
    /\ PT_EnterFinally(u)
    /\ UNCHANGED <<phase, pages_number, lt_pc, page_id, total_pages,
                   products_urls, products_pkl, returned, remerged, appended>>
    /\ UNCHANGED <<probeVars, comboVars, binVars, ctxVars>>

\* pickle.dump(data, <the file opened above>) completes
PT_Dump(u) ==
    /\ phase \in {"products", "aborted"}
    /\ pt_pc[u] = "dump"
    /\ data_pkl' = data
    /\ data_pkl_torn' = FALSE
    /\ pt_pc' = [pt_pc EXCEPT ![u] = "close"]
    /\ UNCHANGED output_csv
    /\ UNCHANGED <<phase, pages_number, sem_value, gather_raised, lt_pc,
                   page_id, total_pages, products_urls, products_pkl,
                   returned, remerged, appended>>
    /\ UNCHANGED <<hu_pc, axes, unavailable, comb_i, data, failed_urls,
                   failed_pkl, data0, failure>>
    /\ UNCHANGED <<probeVars, comboVars, binVars, ctxVars>>

\* await page.close(); await context.close(): the task ends
PT_Close(u) ==
    /\ phase \in {"products", "aborted"}
    /\ ~Dumping
    /\ pt_pc[u] = "close"
    /\ \/ /\ phase = "products"
          /\ pt_pc' = [pt_pc EXCEPT ![u] = "done"]
          /\ sem_value' = sem_value + 1
          /\ UNCHANGED <<gather_raised, data_pkl, output_csv, data_pkl_torn>>
       \/ PT_Raise(u)
    /\ UNCHANGED <<phase, pages_number, lt_pc, page_id, total_pages,
                   products_urls, products_pkl, returned, remerged, appended>>
    /\ UNCHANGED <<hu_pc, axes, unavailable, comb_i, data, failed_urls,
                   failed_pkl, data0, failure>>
    /\ UNCHANGED <<probeVars, comboVars, binVars, ctxVars>>

\* after run() was left by an exception asyncio.run cancels the tasks: the
\* CancelledError passes "except Exception" and runs the finally block; a
\* task still in new_context has no finally block around it
PT_Cancelled(u) ==
    /\ phase = "aborted"
    /\ ~Dumping
    /\ pt_pc[u] \in {"open", "body"}
    /\ UNCHANGED <<hu_pc, axes, unavailable, comb_i, data, failed_urls,
                   failed_pkl, data0, failure>>
    /\ \/ /\ pt_pc[u] = "open"
          /\ PT_Raise(u)
       \/ PT_EnterFinally(u)
    /\ UNCHANGED <<phase, pages_number, lt_pc, page_id, total_pages,
                   products_urls, products_pkl, returned, remerged, appended>>
    /\ UNCHANGED <<probeVars, comboVars, binVars, ctxVars>>

\* a run that goes on as soon as one listing task is over, for comparison
SomeListingOver == \E l \in Listings : lt_pc[l] = "done"

\* await gather_with_concurrency(2, *listing_tasks) has returned
ListingBatchOver == \A l \in Listings : lt_pc[l] = "done"

\* products_urls = load_products_urls(); product_tasks = [handle_url(..) for
\* url in list(products_urls)]; gather_with_concurrency(pages_number, ...)
RunProducts ==
    /\ phase = "listing"
    /\ ListingBatchOver
    /\ phase' = "products"
    /\ pt_pc' = [u \in Urls |-> IF u \in load_products_urls THEN "wait" ELSE "none"]
    /\ sem_value' = pages_number
    /\ UNCHANGED <<pages_number, gather_raised, lt_pc, page_id, total_pages,
                   products_urls, products_pkl, returned, remerged, appended,
                   data_pkl_torn>>
    /\ UNCHANGED <<probeVars, taskVars, comboVars, binVars, ctxVars>>

\* a batch that is over as soon as one product task is, for comparison
SomeProductOver == \E u \in Urls : pt_pc[u] = "done"

\* await gather_with_concurrency(pages_number, *product_tasks) has returned
ProductBatchOver == \A u \in Urls : pt_pc[u] \in {"none", "done"}

\* the product batch is over: finally: await browser.close()
RunFinish ==
    /\ phase = "products"
    /\ ProductBatchOver
    /\ phase' = "finished"
    /\ UNCHANGED <<pages_number, sem_value, gather_raised, lt_pc, page_id,
                   total_pages, products_urls, products_pkl, returned, remerged, pt_pc,
                   appended, data_pkl_torn>>
    /\ UNCHANGED <<probeVars, taskVars, comboVars, binVars, ctxVars>>

\* gather re-raises the first exception of a task: run() leaves through its
\* finally block, which closes the browser, while the other tasks of the
\* batch are where they are
RunAbort ==
    /\ phase \in {"listing", "products"}
    /\ ~Dumping
    /\ gather_raised
    /\ phase' = "aborted"
    /\ UNCHANGED <<pages_number, sem_value, gather_raised, lt_pc, page_id,
                   total_pages, products_urls, products_pkl, returned, remerged, pt_pc,
                   appended, data_pkl_torn>>
    /\ UNCHANGED <<probeVars, taskVars, comboVars, binVars, ctxVars>>

\* the process is killed (or the machine stops) during the product phase
Crash ==
    /\ phase = "products"
    /\ phase' = "crashed"
    /\ UNCHANGED <<pages_number, sem_value, gather_raised, lt_pc, page_id,
                   total_pages, products_urls, products_pkl, returned, remerged, pt_pc,
                   appended, data_pkl_torn>>
    /\ UNCHANGED <<probeVars, taskVars, comboVars, binVars, ctxVars>>

\* main, after "async with async_playwright()": update_output(data);
\* create_hypertext(); generate_report(..) if template.txt exists; an
\* exception of one of them is logged and raised again
MainOutputs ==
    /\ phase = "finished"
    /\ phase' \in {"reported", "aborted"}
    /\ UNCHANGED <<pages_number, sem_value, gather_raised, lt_pc, page_id,
                   total_pages, products_urls, products_pkl, returned, remerged, pt_pc,
                   appended, data_pkl_torn>>
    /\ UNCHANGED <<probeVars, taskVars, comboVars, binVars, ctxVars>>

\* the user interrupts the run: asyncio.run cancels main() at its await of
\* the batch, gather cancels the tasks of the batch, run() leaves through
\* its finally block
Interrupt ==
    /\ phase \in {"listing", "products"}
    /\ ~Dumping
    /\ phase' = "aborted"
    /\ UNCHANGED <<pages_number, sem_value, gather_raised, lt_pc, page_id,
                   total_pages, products_urls, products_pkl, returned, remerged, pt_pc,
                   appended, data_pkl_torn>>
    /\ UNCHANGED <<probeVars, taskVars, comboVars, binVars, ctxVars>>

\* asyncio.run returns when main() and the cancelled tasks have ended
AsyncioRunOver ==
    /\ phase \in {"reported", "aborted"}
    /\ \A u \in Urls : pt_pc[u] \notin ProductActive

\* a launcher that returns without saving, for comparison
ML_FinallyNoSave ==
    /\ AsyncioRunOver
    /\ phase' = "returned"
    /\ UNCHANGED <<hu_pc, axes, unavailable, comb_i, data, failed_urls,
                   data_pkl, output_csv, failed_pkl, data0, failure>>
    /\ UNCHANGED <<pages_number, sem_value, gather_raised, lt_pc, page_id,
                   total_pages, products_urls, products_pkl, returned, remerged, pt_pc,
                   appended, data_pkl_torn>>
    /\ UNCHANGED <<probeVars, comboVars, binVars, ctxVars>>

\* main_launcher, finally: if data: pickle.dump(data, open('data.pkl',
\* 'wb')); a dump that raises is logged ("Failed to save progress")
ML_Finally ==
    /\ AsyncioRunOver
    /\ phase' = "returned"
    /\ IF data # <<>>
         THEN \/ /\ data_pkl' = data
                 /\ UNCHANGED failure
              \/ /\ data_pkl' = <<>>
                 /\ failure' = "save"
         ELSE UNCHANGED <<data_pkl, failure>>
    /\ UNCHANGED <<hu_pc, axes, unavailable, comb_i, data, failed_urls,
                   output_csv, failed_pkl, data0>>
    /\ UNCHANGED <<pages_number, sem_value, gather_raised, lt_pc, page_id,
                   total_pages, products_urls, products_pkl, returned, remerged, pt_pc,
                   appended, data_pkl_torn>>
    /\ UNCHANGED <<probeVars, comboVars, binVars, ctxVars>>

NextRun ==
    \/ \E l \in Listings :
          \/ LT_Acquire(l)
          \/ LT_Open(l)
          \/ LT_PageLoad(l)
          \/ LT_Extract(l)
          \/ LT_Close(l)
    \/ \E u \in Urls :
          \/ PT_Acquire(u)
          \/ PT_Open(u)
          \/ PT_Append(u)
          \/ PT_BodyFail(u)
          \/ PT_Dump(u)
          \/ PT_Close(u)
          \/ PT_Cancelled(u)
    \/ RunProducts
    \/ RunFinish
    \/ RunAbort
    \/ Crash
    \/ MainOutputs
    \/ Interrupt
    \/ ML_Finally

SpecRun == InitRun /\ [][NextRun]_vars

(***************************************************************************)
(* launcher.py, get_user_configuration: the number of tabs is read from    *)
(* the user's answer.  An answer is a sequence of characters; int() is     *)
(* Python's: surrounding white space is dropped, one sign is allowed, and  *)
(* what remains must be decimal digits.                                    *)
(***************************************************************************)
InputChars == {"0", "1", "-", "x", " "}
Digits == {"0", "1"}

\* the answers the user may type
UserInputs == UNION { [1 .. n -> InputChars] : n \in 0 .. MaxInputLen }

RECURSIVE lstrip(_)
lstrip(s) == IF s # <<>> /\ Head(s) = " " THEN lstrip(Tail(s)) ELSE s

RECURSIVE rstrip(_)
rstrip(s) ==
    IF s # <<>> /\ s[Len(s)] = " " THEN rstrip(SubSeq(s, 1, Len(s) - 1)) ELSE s

\* the value of a string of decimal digits
RECURSIVE DecimalValue(_)
DecimalValue(s) ==
    IF s = <<>> THEN 0
    ELSE 10 * DecimalValue(SubSeq(s, 1, Len(s) - 1))
            + (IF s[Len(s)] = "1" THEN 1 ELSE 0)

\* int(s): the value, or ValueError (ok = FALSE)
int(s) ==
    LET t      == rstrip(lstrip(s))
        signed == t # <<>> /\ Head(t) = "-"
        body   == IF signed THEN Tail(t) ELSE t
    IN  IF body # <<>> /\ \A i \in 1 .. Len(body) : body[i] \in Digits
          THEN [ok |-> TRUE,
                value |-> IF signed THEN 0 - DecimalValue(body)
                                    ELSE DecimalValue(body)]
          ELSE [ok |-> FALSE, value |-> 0]

\* pages_number of get_user_configuration for the answer s
get_user_configuration(s) ==
    IF int(s).ok
      THEN IF int(s).value <= 0 THEN DefaultTabs ELSE int(s).value
      ELSE DefaultTabs

\* a run with the number of tabs that get_user_configuration returns
InitTabs ==
    RunStartWith(ListingLimit, { get_user_configuration(s) : s \in UserInputs })

\* the run left to itself: no interrupt by the user, no kill of the process
NextTabs ==
    \/ \E l \in Listings :
          \/ LT_Acquire(l)
          \/ LT_Open(l)
          \/ LT_PageLoad(l)
          \/ LT_Extract(l)
          \/ LT_Close(l)
    \/ \E u \in Urls :
          \/ PT_Acquire(u)
          \/ PT_Open(u)
          \/ PT_Append(u)
          \/ PT_BodyFail(u)
          \/ PT_Dump(u)
          \/ PT_Close(u)
          \/ PT_Cancelled(u)
    \/ RunProducts
    \/ RunFinish
    \/ RunAbort
    \/ MainOutputs
    \/ ML_Finally

\* the event loop runs whatever is ready: every started task goes on to
\* its end
SpecTabs == InitTabs /\ [][NextTabs]_vars /\ WF_vars(NextTabs)

(***************************************************************************)
(* One handle_listing task of playwright_utils on its own, statement by    *)
(* statement: the outer try with its "except Exception", the loop over the *)
(* pages and the inner try of each page.  failure holds who caught the     *)
(* last exception, "page" (the inner handler) or "outer" (the outer one),  *)
(* and the page_id at which it did.                                        *)
(***************************************************************************)
\* no exception has been caught in the task yet
NoPageFailure == [kind |-> "none", page |-> 0]

InitListing ==
    /\ phase = "listing"
    /\ pages_number = 1
    /\ sem_value = ListingLimit - 1
    /\ gather_raised = FALSE
    /\ \E l0 \in Listings :
          lt_pc = [l \in Listings |-> IF l = l0 THEN "open" ELSE "done"]
    /\ page_id = [l \in Listings |-> 0]
    /\ total_pages = [l \in Listings |-> 0]
    /\ products_urls = [l \in Listings |-> {}]
    /\ products_pkl \in SUBSET Urls
    /\ returned = {}
    /\ remerged = {}
    /\ pt_pc = [u \in Urls |-> "none"]
    /\ appended = [u \in Urls |-> 0]
    /\ data_pkl_torn = FALSE
    /\ data = <<>>
    /\ data0 = <<>>
    /\ failed_urls = {}
    /\ data_pkl = <<>>
    /\ output_csv = <<>>
    /\ failed_pkl = {}
    /\ hu_pc = "idle"
    /\ axes = <<>>
    /\ unavailable = FALSE
    /\ comb_i = 0
    /\ failure = NoPageFailure
    /\ IdleProbe
    /\ IdleCombos
    /\ IdleBinary
    /\ IdleContexts

\* what a step of the listing task leaves alone
HL_Rest ==
    /\ UNCHANGED <<phase, pages_number, remerged, pt_pc, appended, data_pkl_torn>>
    /\ UNCHANGED <<hu_pc, axes, unavailable, comb_i, data, failed_urls, data_pkl,
                   output_csv, failed_pkl, data0>>
    /\ UNCHANGED <<probeVars, comboVars, binVars, ctxVars>>

\* the outer "except Exception": the error is logged, the loop is left, the
\* outer finally block follows
HL_OuterExcept(l) ==
    /\ lt_pc' = [lt_pc EXCEPT ![l] = "close"]
    /\ failure' = [kind |-> "outer", page |-> page_id[l]]

\* context = await browser.new_context(); page = await context.new_page()
\* (outside the try); await page.goto(listing_url); total_pages = await
\* get_total_pages(page); await page.close()
HL_Open(l) ==
    /\ lt_pc[l] = "open"
    /\ \/ /\ \E n \in 1 .. MaxPages :
                total_pages' = [total_pages EXCEPT ![l] = n]
          /\ page_id' = [page_id EXCEPT ![l] = 1]
          /\ lt_pc' = [lt_pc EXCEPT ![l] = "pagectx"]
          /\ UNCHANGED <<sem_value, gather_raised, failure>>
       \/ /\ HL_OuterExcept(l)
          /\ UNCHANGED <<sem_value, gather_raised, page_id, total_pages>>
       \/ /\ LT_Raise(l)
          /\ UNCHANGED failure
    /\ UNCHANGED <<products_urls, products_pkl, returned>>
    /\ HL_Rest

\* listing_page_context = await browser.new_context(); page = await
\* listing_page_context.new_page(): before the inner try
HL_PageContext(l) ==
    /\ lt_pc[l] = "pagectx"
    /\ \/ /\ lt_pc' = [lt_pc EXCEPT ![l] = "goto"]
          /\ UNCHANGED failure
       \/ HL_OuterExcept(l)
    /\ UNCHANGED <<sem_value, gather_raised, page_id, total_pages, products_urls,
                   products_pkl, returned>>
    /\ HL_Rest

\* the inner "except Exception": the error of the page is logged, the inner
\* finally block follows
HL_InnerExcept(l) ==
    /\ lt_pc' = [lt_pc EXCEPT ![l] = "pageclose"]
    /\ failure' = [kind |-> "page", page |-> page_id[l]]

\* await page.goto(listing_url + '?page=..'); products_urls =
\* load_products_urls()
HL_Goto(l) ==
    /\ lt_pc[l] = "goto"
    /\ \/ /\ products_urls' = [products_urls EXCEPT ![l] = load_products_urls]
          /\ lt_pc' = [lt_pc EXCEPT ![l] = "extract"]
          /\ UNCHANGED failure
       \/ /\ HL_InnerExcept(l)
          /\ UNCHANGED products_urls
    /\ UNCHANGED <<sem_value, gather_raised, page_id, total_pages, products_pkl,
                   returned>>
    /\ HL_Rest

\* a page loop without the inner try, as in scraper.py, for comparison
HL_ExtractUncaught(l) ==
    /\ lt_pc[l] = "extract"
    /\ \/ LET new_urls == PageUrls(l, page_id[l])
          IN  /\ products_pkl' = products_urls[l] \cup new_urls
              /\ returned' = returned \cup new_urls
              /\ lt_pc' = [lt_pc EXCEPT ![l] = "pageclose"]
              /\ UNCHANGED failure
       \/ /\ lt_pc' = [lt_pc EXCEPT ![l] = "close"]
          /\ failure' = [kind |-> "page", page |-> page_id[l]]
          /\ UNCHANGED <<products_pkl, returned>>
    /\ products_urls' = [products_urls EXCEPT ![l] = {}]
    /\ UNCHANGED <<sem_value, gather_raised, page_id, total_pages>>
    /\ HL_Rest

\* new_urls = await get_page_products_urls(page); products_urls =
\* products_urls.union(new_urls); pickle.dump(products_urls, ...)
HL_Extract(l) ==
    /\ lt_pc[l] = "extract"
    /\ \/ LET new_urls == PageUrls(l, page_id[l])
          IN  /\ products_pkl' = products_urls[l] \cup new_urls
              /\ returned' = returned \cup new_urls
              /\ lt_pc' = [lt_pc EXCEPT ![l] = "pageclose"]
              /\ UNCHANGED failure
       \/ /\ HL_InnerExcept(l)
          /\ UNCHANGED <<products_pkl, returned>>
    /\ products_urls' = [products_urls EXCEPT ![l] = {}]
    /\ UNCHANGED <<sem_value, gather_raised, page_id, total_pages>>
    /\ HL_Rest

\* the inner finally: await page.close(); await listing_page_context
\* .close(); then the next page_id of the range, or the end of the loop
HL_PageClose(l) ==
    /\ lt_pc[l] = "pageclose"
    /\ \/ /\ IF page_id[l] < total_pages[l]
               THEN /\ page_id' = [page_id EXCEPT ![l] = page_id[l] + 1]
                    /\ lt_pc' = [lt_pc EXCEPT ![l] = "pagectx"]
               ELSE /\ lt_pc' = [lt_pc EXCEPT ![l] = "close"]
                    /\ UNCHANGED page_id
          /\ UNCHANGED failure
       \/ /\ HL_OuterExcept(l)
          /\ UNCHANGED page_id
    /\ UNCHANGED <<sem_value, gather_raised, total_pages, products_urls,
                   products_pkl, returned>>
    /\ HL_Rest

\* the outer finally: await context.close(); the task ends
HL_Close(l) ==
    /\ lt_pc[l] = "close"
    /\ \/ /\ lt_pc' = [lt_pc EXCEPT ![l] = "done"]
          /\ sem_value' = sem_value + 1
          /\ UNCHANGED <<gather_raised, page_id, total_pages>>
       \/ /\ lt_pc' = [lt_pc EXCEPT ![l] = "raised"]
          /\ sem_value' = sem_value + 1
          /\ gather_raised' = TRUE
          /\ UNCHANGED <<page_id, total_pages>>
    /\ UNCHANGED <<products_urls, products_pkl, returned, failure>>
    /\ HL_Rest

NextListing ==
    \E l \in Listings :
        \/ HL_Open(l)
        \/ HL_PageContext(l)
        \/ HL_Goto(l)
        \/ HL_Extract(l)
        \/ HL_PageClose(l)
        \/ HL_Close(l)

SpecListing == InitListing /\ [][NextListing]_vars

(***************************************************************************)
(* The listing batch run sequentially: the handle_listing tasks under a    *)
(* semaphore of one slot, so that no task runs between the load and the    *)
(* dump of another, over the products_urls.pkl that earlier runs left and   *)
(* run after run.                                                          *)
(***************************************************************************)
InitMerge == RunStart(1)

\* the batch is over (every task is done or has raised) and the program is
\* started again: run() builds the listing tasks anew, the file stays
MG_Restart ==
    /\ phase = "listing"
    /\ \A l \in Listings : lt_pc[l] \in {"done", "raised"}
    /\ lt_pc' = [l \in Listings |-> "wait"]
    /\ sem_value' = 1
    /\ gather_raised' = FALSE
    /\ UNCHANGED <<phase, pages_number, page_id, total_pages, products_urls,
                   products_pkl, returned, remerged, pt_pc, appended,
                   data_pkl_torn>>
    /\ UNCHANGED <<probeVars, taskVars, comboVars, binVars, ctxVars>>

NextMerge ==
    \/ \E l \in Listings :
          \/ LT_Acquire(l)
          \/ LT_Open(l)
          \/ LT_PageLoad(l)
          \/ LT_Extract(l)
          \/ LT_Close(l)
    \/ MG_Restart

SpecMerge == InitMerge /\ [][NextMerge]_vars

(***************************************************************************)
(* The browser contexts of the tasks: browser.new_context() in handle_url  *)
(* and handle_listing, the add-to-cart clicks of a product task in the     *)
(* page of its context, and the closes of the finally blocks.  The cart    *)
(* belongs to the session of a context.  The tasks run side by side.       *)
(***************************************************************************)
CtxTasks == 1 .. NumCtxTasks

CtxIds == 1 .. MaxContexts

\* task 1 is a handle_listing task, the others are handle_url tasks
IsListingTask(t) == t = 1

\* quantities of an accepted add-to-cart
CartQuantities == {1, 2}

InitContexts ==
    /\ ct_pc = [t \in CtxTasks |-> "new"]
    /\ contexts = {}
    /\ context_of = [t \in CtxTasks |-> <<>>]
    /\ cart_of = [c \in CtxIds |-> 0]
    /\ added_by = [t \in CtxTasks |-> 0]
    /\ IdleProbe
    /\ IdleTask
    /\ IdleRun
    /\ IdleCombos
    /\ IdleBinary

\* a browser that hands out a context it has already open, for comparison
OpenContextAgain == IF contexts = {} THEN CtxIds ELSE contexts

\* browser.new_context(): a context that was not there before
new_context == CtxIds \ contexts

\* context = await browser.new_context(); page = await context.new_page()
CT_NewContext(t) ==
    /\ ct_pc[t] = "new"
    /\ \E c \in new_context :
          /\ contexts' = contexts \cup {c}
          /\ context_of' = [context_of EXCEPT ![t] = <<c>>]
    /\ ct_pc' = [ct_pc EXCEPT ![t] = "work"]
    /\ UNCHANGED <<cart_of, added_by>>
    /\ UNCHANGED <<probeVars, taskVars, runVars, comboVars, binVars>>

\* handle_listing, per page: listing_page_context = await
\* browser.new_context(); page = await listing_page_context.new_page()
CT_ListingPage(t) ==
    /\ IsListingTask(t)
    /\ ct_pc[t] = "work"
    /\ \E c \in new_context :
          /\ contexts' = contexts \cup {c}
          /\ context_of' = [context_of EXCEPT ![t] = Append(@, c)]
    /\ ct_pc' = [ct_pc EXCEPT ![t] = "page"]
    /\ UNCHANGED <<cart_of, added_by>>
    /\ UNCHANGED <<probeVars, taskVars, runVars, comboVars, binVars>>

\* the contexts the locals of task t refer to
ContextsOf(t) == { context_of[t][i] : i \in 1 .. Len(context_of[t]) }

\* the session of a closed context is gone, and its cart with it
CartsWithout(closed) ==
    [c \in CtxIds |-> IF c \in closed THEN 0 ELSE cart_of[c]]

\* handle_listing, per page, finally: await page.close(); await
\* listing_page_context.close()
CT_ListingPageClose(t) ==
    /\ IsListingTask(t)
    /\ ct_pc[t] = "page"
    /\ LET c == context_of[t][Len(context_of[t])]
       IN  /\ contexts' = contexts \ {c}
           /\ context_of' = [context_of EXCEPT ![t] = <<Head(@)>>]
           /\ cart_of' = CartsWithout({c})
    /\ ct_pc' = [ct_pc EXCEPT ![t] = "work"]
    /\ UNCHANGED added_by
    /\ UNCHANGED <<probeVars, taskVars, runVars, comboVars, binVars>>

\* try_inventory_quantity of a product task: await page.click(addToCart) in
\* the page of the task's context, accepted by the site
CT_AddToCart(t) ==
    /\ ~IsListingTask(t)
    /\ ct_pc[t] = "work"
    /\ added_by[t] < MaxAdds * 2
    /\ \E n \in CartQuantities :
          /\ cart_of' = [c \in CtxIds |->
                           IF c \in ContextsOf(t) THEN cart_of[c] + n
                                                 ELSE cart_of[c]]
          /\ added_by' = [added_by EXCEPT ![t] = @ + n]
    /\ UNCHANGED <<ct_pc, contexts, context_of>>
    /\ UNCHANGED <<probeVars, taskVars, runVars, comboVars, binVars>>

\* finally: await page.close(); await context.close(): the task is over
CT_Close(t) ==
    /\ ct_pc[t] = "work"
    /\ contexts' = contexts \ ContextsOf(t)
    /\ cart_of' = CartsWithout(ContextsOf(t))
    /\ context_of' = [context_of EXCEPT ![t] = <<>>]
    /\ added_by' = [added_by EXCEPT ![t] = 0]
    /\ ct_pc' = [ct_pc EXCEPT ![t] = "closed"]
    /\ UNCHANGED <<probeVars, taskVars, runVars, comboVars, binVars>>

NextContexts ==
    \E t \in CtxTasks :
        \/ CT_NewContext(t)
        \/ CT_ListingPage(t)
        \/ CT_ListingPageClose(t)
        \/ CT_AddToCart(t)
        \/ CT_Close(t)

SpecContexts == InitContexts /\ [][NextContexts]_vars

(***************************************************************************)
(* Start-up after an earlier run: load_existing_data reads data.pkl back,  *)
(* the run appends records and dumps data, the process ends, and the next  *)
(* start-up reads what the last completed dump left.                       *)
(***************************************************************************)
\* cols: the columns that identify a variation (SKU and the Droplist pairs)
cols(r) == <<r.SKU, r.Droplist>>

\* df[cols].duplicated(): a row is marked when an earlier row has its cols
duplicated(d) ==
    [i \in 1 .. Len(d) |-> \E j \in 1 .. (i - 1) : cols(d[j]) = cols(d[i])]

\* df[~mask]: the rows that are not marked, in their order
RECURSIVE Unmarked(_, _, _)
Unmarked(d, mask, i) ==
    IF i > Len(d) THEN <<>>
    ELSE (IF mask[i] THEN <<>> ELSE <<d[i]>>) \o Unmarked(d, mask, i + 1)

\* load_existing_data: the records of data.pkl without the marked rows; no
\* file, or an empty list in it (df[cols] raises, "except Exception"), gives []
load_existing_data(d) ==
    IF d = <<>> THEN <<>> ELSE Unmarked(d, duplicated(d), 1)

\* the records a product task may append: get_product_item reads '' for the
\* SKU of a page without a SKU label, and the probe gives the stock
ReloadRecords ==
    { [primary_item(u) EXCEPT !.SKU = IF labelled THEN @ ELSE "",
                              !.stock = q] :
        u \in {TaskUrl, OtherUrl}, labelled \in BOOLEAN, q \in TaskStocks }

InitReload ==
    /\ phase = "startup"
    /\ data = <<>>
    /\ data0 = <<>>
    /\ data_pkl = <<>>
    /\ output_csv = <<>>
    /\ hu_pc = "idle"
    /\ axes = <<>>
    /\ unavailable = FALSE
    /\ comb_i = 0
    /\ failed_urls = {}
    /\ failed_pkl = {}
    /\ failure = "none"
    /\ pages_number = 1
    /\ sem_value = 0
    /\ gather_raised = FALSE
    /\ lt_pc = <<>>
    /\ page_id = <<>>
    /\ total_pages = <<>>
    /\ products_urls = <<>>
    /\ products_pkl = {}
    /\ returned = {}
    /\ remerged = {}
    /\ pt_pc = <<>>
    /\ appended = <<>>
    /\ data_pkl_torn = FALSE
    /\ IdleProbe
    /\ IdleCombos
    /\ IdleBinary
    /\ IdleContexts

\* initialize_global_variables: load_existing_data(); failed_urls = set()
RL_Load ==
    /\ phase = "startup"
    /\ data' = load_existing_data(data_pkl)
    /\ data0' = data'
    /\ failed_urls' = {}
    /\ phase' = "loaded"
    /\ UNCHANGED <<hu_pc, axes, unavailable, comb_i, data_pkl, output_csv, failed_pkl,
                   failure>>
    /\ UNCHANGED <<pages_number, sem_value, gather_raised, lt_pc, page_id,
                   total_pages, products_urls, products_pkl, returned, remerged, pt_pc,
                   appended, data_pkl_torn>>
    /\ UNCHANGED <<probeVars, comboVars, binVars, ctxVars>>

\* inventory_identifier: data.append(variation_item)
RL_Append ==
    /\ phase \in {"loaded", "running"}
    /\ Len(data) < MaxRecords
    /\ \E r \in ReloadRecords : data' = Append(data, r)
    /\ phase' = "running"
    /\ UNCHANGED <<hu_pc, axes, unavailable, comb_i, failed_urls, data_pkl, output_csv,
                   failed_pkl, data0, failure>>
    /\ UNCHANGED <<pages_number, sem_value, gather_raised, lt_pc, page_id,
                   total_pages, products_urls, products_pkl, returned, remerged, pt_pc,
                   appended, data_pkl_torn>>
    /\ UNCHANGED <<probeVars, comboVars, binVars, ctxVars>>

\* the finally block of handle_url: pickle.dump(data, ...) completes
RL_Dump ==
    /\ phase \in {"loaded", "running"}
    /\ output_csv' = data
    /\ data_pkl' = data
    /\ phase' = "running"
    /\ UNCHANGED <<hu_pc, axes, unavailable, comb_i, data, failed_urls,
                   failed_pkl, data0, failure>>
    /\ UNCHANGED <<pages_number, sem_value, gather_raised, lt_pc, page_id,
                   total_pages, products_urls, products_pkl, returned, remerged, pt_pc,
                   appended, data_pkl_torn>>
    /\ UNCHANGED <<probeVars, comboVars, binVars, ctxVars>>

\* a product task fails: failed_urls.add(url), and, in the handlers of
\* TimeoutError and NotImplementedError, pickle.dump(failed_urls, ...)
RL_Fail ==
    /\ phase \in {"loaded", "running"}
    /\ \E u \in {TaskUrl, OtherUrl} : failed_urls' = failed_urls \cup {u}
    /\ \/ failed_pkl' = failed_urls'
       \/ UNCHANGED failed_pkl
    /\ phase' = "running"
    /\ UNCHANGED <<hu_pc, axes, unavailable, comb_i, data, data_pkl, output_csv, data0,
                   failure>>
    /\ UNCHANGED <<pages_number, sem_value, gather_raised, lt_pc, page_id,
                   total_pages, products_urls, products_pkl, returned, remerged, pt_pc,
                   appended, data_pkl_torn>>
    /\ UNCHANGED <<probeVars, comboVars, binVars, ctxVars>>

\* the process ends (the run is over, or it is stopped) and is started again
RL_Restart ==
    /\ phase \in {"loaded", "running"}
    /\ phase' = "startup"
    /\ data' = <<>>
    /\ data0' = <<>>
    /\ failed_urls' = {}
    /\ UNCHANGED <<hu_pc, axes, unavailable, comb_i, data_pkl, output_csv, failed_pkl,
                   failure>>
    /\ UNCHANGED <<pages_number, sem_value, gather_raised, lt_pc, page_id,
                   total_pages, products_urls, products_pkl, returned, remerged, pt_pc,
                   appended, data_pkl_torn>>
    /\ UNCHANGED <<probeVars, comboVars, binVars, ctxVars>>

NextReload ==
    \/ RL_Load
    \/ RL_Append
    \/ RL_Dump
    \/ RL_Fail
    \/ RL_Restart

SpecReload == InitReload /\ [][NextReload]_vars

(***************************************************************************)
(* Claims on the probe (SpecProbe).                                        *)
(***************************************************************************)
\* The oracle of the probe so far was the stateless threshold oracle: no
\* timeout and no response without "data" has occurred.
RegularOracle == ~transient /\ malformed = 0

\* C1: for the stateless threshold oracle (available iff n <= stock) and the
\* initial guess 100, get_inventory_value returns exactly the stock.
C1_ProbeReturnsStock ==
    (gi_pc = "done" /\ oracleKind = "threshold" /\ RegularOracle)
        => inventory = stock

\* C3: a transient error of an oracle call (a timeout of the fill, the click
\* or the response wait) is reported as unavailable for that call: it never
\* aborts the probe and is never the reason a product task fails.
C3_TransientErrorNotFatal == gi_pc # "raised" /\ failure # "oracle"

\* the record list d holds a record of product u for the combination c
HasRecord(d, u, c) ==
    \E i \in 1 .. Len(d) :
        /\ d[i].URL = u
        /\ d[i].Droplist = [k \in 1 .. Len(c) |-> <<axes[k].name, c[k]>>]

\* C5: after a restart that reloads data.pkl, the oracle is not called for a
\* variant that already has a record in the reloaded data.
C5_NoReprobeAfterReload ==
    (hu_pc = "probe" /\ calls > 0)
        => ~HasRecord(data0, TaskUrl, all_combinations[comb_i])

\* C2: within one try_inventory_quantity call the add-to-cart click is
\* retried at most a fixed number of times (the retry budget).
C2_ClickRetriesBounded == count <= ClickRetryBudget
\* C4: once the listing batch is over, products_urls.pkl holds every URL that
\* get_page_products_urls returned for a page processed without error
C4_MergeAtomic == ListingBatchOver => returned \subseteq products_pkl

\* C6: after a task has raised, the browser is not closed (run() is not left)
\* while a product task of the batch is still active or waiting
C6_SiblingsRunOn ==
    (phase = "aborted" /\ gather_raised) =>
        \A u \in Urls : pt_pc[u] \notin ProductActive \cup {"wait"}

\* C7: at every moment at most 2 listing tasks and at most pages_number
\* product tasks hold a semaphore slot
C7_AtMostNSlots ==
    /\ Cardinality({l \in Listings : lt_pc[l] \in ListingActive}) <= ListingLimit
    /\ Cardinality({u \in Urls : pt_pc[u] \in ProductActive}) <= pages_number

\* C7 witness: the product batch has used up its pages_number slots and a
\* further product task waits
C7_SlotsFull ==
    /\ phase = "products"
    /\ Cardinality({u \in Urls : pt_pc[u] \in ProductActive}) = pages_number
    /\ \E u \in Urls : pt_pc[u] = "wait"

\* C8: a product task has started only when every listing task is over, and
\* the product tasks are the URLs of products_urls.pkl
C8_ListingBeforeProducts ==
    /\ (\E u \in Urls : pt_pc[u] \notin {"none", "wait"}) =>
           \A l \in Listings : lt_pc[l] \in {"done", "raised"}
    /\ phase = "listing" => \A u \in Urls : pt_pc[u] = "none"
    /\ phase \in {"products", "finished", "crashed"} =>
           {u \in Urls : pt_pc[u] # "none"} = products_pkl

\* C8 witness: a product task is at work on a URL of products_urls.pkl that
\* the listing tasks found in this run
C8_ProductAtWork ==
    /\ phase = "products"
    /\ \E u \in Urls : pt_pc[u] = "body" /\ u \in returned

\* C9: data.pkl holds every record appended by a product task that is over
\* (the launcher's own dump at the end of the run has not failed)
C9_CompletedRecordsDurable ==
    \A u \in Urls :
        (pt_pc[u] = "done" /\ failure # "save") =>
            \A k \in 1 .. appended[u] :
                \E i \in 1 .. Len(data_pkl) : data_pkl[i] = RunRecord(u, k)

\* C10: right after start-up data is exactly the list that the last completed
\* pickle.dump(data) wrote to data.pkl
C10_ReloadRoundTrip == phase = "loaded" => data = data_pkl

(***************************************************************************)
(* Further claims on the probe (SpecProbe).                                *)
(***************************************************************************)
\* C15, as stated: the quantity returned is the largest quantity a call of
\* the search returned available for (0 when none did)
C15_ReturnsLargestAccepted ==
    (gi_pc = "done" /\ RegularOracle) => inventory = accepted.max

\* C15: the quantity returned is the sum of the quantities that the calls of
\* the search returned available for (0 when none did), so at least the
\* largest of them
C15_ReturnsSumAccepted ==
    gi_pc = "done" =>
        /\ inventory = accepted.sum
        /\ inventory >= accepted.max

\* C15 witness: a cart of 9 units took 6 and then 3: the probe returned 9,
\* which no call had asked for
C15_SixPlusThree ==
    /\ gi_pc = "done"
    /\ RegularOracle
    /\ inventory = 9
    /\ accepted.max = 6

\* C16: no try_inventory_quantity call is made with a quantity above ten times
\* the initial guess
C16_CallsBelowCeiling ==
    tq_pc # "idle" => check_value <= 10 * GuessedInitialValue

\* the least k with 2^k >= n
RECURSIVE Log2Ceil(_)
Log2Ceil(n) == IF n <= 1 THEN 0 ELSE 1 + Log2Ceil((n + 1) \div 2)

\* c * (log2(upper_guess) + log2(max(1, Q / upper_guess))) + c
CallBudget(q) ==
    LET ratio == q \div GuessedInitialValue
    IN  LogFactor * (Log2Ceil(GuessedInitialValue)
                      + Log2Ceil(IF ratio > 1 THEN ratio ELSE 1))
        + LogFactor

\* C17: against the stateless threshold oracle of stock Q the calls of one
\* probe stay within the logarithmic budget
C17_LogarithmicCalls ==
    (oracleKind = "threshold" /\ RegularOracle) => calls <= CallBudget(stock)

(***************************************************************************)
(* Claims on get_all_combinations (SpecCombos).                            *)
(***************************************************************************)
\* the number of tuples over the lists from position i on
RECURSIVE TuplesFrom(_, _)
TuplesFrom(ls, i) ==
    IF i > Len(ls) THEN 1 ELSE Len(ls[i]) * TuplesFrom(ls, i + 1)

\* C11: get_all_combinations returns k1*...*kn tuples, all distinct, position
\* i of the k-th tuple being the option of list i that nested iteration with
\* the last list varying fastest gives it; a second call returns the same
C11_CartesianProduct ==
    gc_pc \in {"called", "again"} =>
        /\ Len(combinations) = TuplesFrom(arg_lists, 1)
        /\ \A k \in 1 .. Len(combinations) :
              /\ Len(combinations[k]) = Len(arg_lists)
              /\ \A i \in 1 .. Len(arg_lists) :
                    combinations[k][i] =
                        arg_lists[i][(((k - 1) \div TuplesFrom(arg_lists, i + 1))
                                        % Len(arg_lists[i])) + 1]
        /\ \A j, k \in 1 .. Len(combinations) :
              j # k => combinations[j] # combinations[k]
        /\ gc_pc = "again" => combinations_again = combinations

\* C11 witness: [Red, Blue] x [S, M] was enumerated twice, (Red, S) first
C11_RedBlueBySM ==
    /\ gc_pc = "again"
    /\ arg_lists = << <<"Red", "Blue">>, <<"S", "M">> >>
    /\ combinations = << <<"Red", "S">>, <<"Red", "M">>,
                          <<"Blue", "S">>, <<"Blue", "M">> >>

\* C12: no list gives the one empty tuple, a list without options gives no
\* tuple at all
C12_EdgeCases ==
    gc_pc \in {"called", "again"} =>
        /\ arg_lists = <<>> => combinations = << <<>> >>
        /\ (\E i \in 1 .. Len(arg_lists) : arg_lists[i] = <<>>) =>
               combinations = <<>>

\* C12 witness: a select without options beside one with two gave no tuple
C12_EmptySelect ==
    /\ gc_pc = "called"
    /\ arg_lists = << <<"Red", "Blue">>, <<>> >>
    /\ combinations = <<>>

(***************************************************************************)
(* Claims on one product task (SpecTask).                                  *)
(***************************************************************************)
\* C13: the task of a page without selects that is not marked unavailable
\* (not skipped as handled, no time-out or other error on its way) appends
\* exactly one record, with empty Droplist fields, and leaves failed_urls alone
C13_NoSelectOneRecord ==
    (/\ hu_pc = "done"
     /\ axes = <<>>
     /\ ~unavailable
     /\ ~check_handled_url(TaskUrl, data0)
     /\ failure \in {"none", "notimpl"})
    => /\ Len(data) = Len(data0) + 1
       /\ data[Len(data)].URL = TaskUrl
       /\ data[Len(data)].Droplist = <<>>
       /\ TaskUrl \notin failed_urls

\* C14: with the out-of-stock text on the page the probe makes no
\* try_inventory_quantity call and returns 0; with the Unavailable button the
\* task never enters inventory_identifier and appends exactly one record, the
\* page's item with Current stock 0
C14_ShortCircuits ==
    /\ outOfStock => calls = 0 /\ tq_pc = "idle" /\ inventory = 0
    /\ unavailable => hu_pc \notin {"ident", "select", "probe"} /\ gi_pc = "idle"
    /\ (/\ unavailable
        /\ hu_pc \in {"finally", "close", "done"}
        /\ failure = "none"
        /\ ~check_handled_url(TaskUrl, data0))
       => /\ Len(data) = Len(data0) + 1
          /\ data[Len(data)] = primary_item(TaskUrl)
          /\ data[Len(data)].stock = 0

\* C14 witness: the probe of an out-of-stock variant has returned 0 without
\* a call
C14_OutOfStockReturned ==
    /\ hu_pc = "probe"
    /\ outOfStock
    /\ gi_pc = "done"
    /\ inventory = 0
    /\ calls = 0

\* C18: when a task that failed (and was not cancelled) is over, its URL is
\* in failed_urls and in failed_urls.pkl
C18_FailureInLedger ==
    (hu_pc = "done" /\ failure \notin {"none", "cancelled"})
    => TaskUrl \in failed_urls /\ TaskUrl \in failed_pkl

(***************************************************************************)
(* Further claims on the run (SpecRun).                                    *)
(***************************************************************************)
\* C19: a listing task whose navigation or page count failed (it is in its
\* finally block and has no page count) has its listing URL in failed_urls
C19_ListingFailureInLedger ==
    \A l \in Listings :
        (lt_pc[l] = "close" /\ total_pages[l] = 0)
        => ListingUrl(l) \in failed_urls

(***************************************************************************)
(* Further claims on start-up (SpecReload).                                *)
(***************************************************************************)
\* C20: every write of failed_urls.pkl, in this run or a later one, keeps the
\* URLs the file held before
C20_LedgerAppendOnly == [][failed_pkl \subseteq failed_pkl']_vars

C23_ProgressSaved ==
    (phase = "returned" /\ failure # "save") => data_pkl = data

\* C23, witness: the launcher returns from a run that was cut short, with
\* the records of a task whose own export had failed
C23_ReturnedAfterAbort ==
    /\ phase = "returned"
    /\ failure # "save"
    /\ data # <<>>
    /\ \E u \in Urls : pt_pc[u] = "raised" /\ appended[u] > 0

(***************************************************************************)
(* C22: a task that has clicked add-to-cart and waits for the cart/add     *)
(* response is not stopped before try_inventory_quantity has handled the   *)
(* response: its next step ends that call, and the task is still in its    *)
(* probe.                                                                  *)
(***************************************************************************)
C22_CallCompletes ==
    [][(hu_pc = "probe" /\ tq_pc = "response")
          => (hu_pc' = "probe" /\ failure' = failure)]_vars

\* C24: data never holds two records for the same variant (the same URL and
\* the same combination), also when the run started from a reloaded data.pkl
C24_NoDuplicateKeys ==
    \A i, j \in 1 .. Len(data) :
        (i < j) => ~(data[i].URL = data[j].URL
                       /\ data[i].Droplist = data[j].Droplist)

(***************************************************************************)
(* C25: run sequentially, a page merge never removes a URL from            *)
(* products_urls.pkl, in this run or a later one, and the merge of a page  *)
(* whose URLs were all merged before leaves the file as it was.            *)
(***************************************************************************)
C25_MergeIdempotent ==
    [][/\ products_pkl \subseteq products_pkl'
       /\ \A l \in Listings :
             (lt_pc[l] = "extract" /\ PageUrls(l, page_id[l]) \subseteq returned)
                => products_pkl' = products_pkl]_vars

\* C25, witness: a URL has been merged a second time, and the file holds
\* every URL that was merged
C25_MergedAgain ==
    /\ remerged # {}
    /\ returned \subseteq products_pkl
    /\ \A l \in Listings : lt_pc[l] = "done"

(***************************************************************************)
(* C26: no context is referred to by two tasks, every context a task       *)
(* refers to is open, and the cart a product task sees in its context      *)
(* holds what the task itself has added, whatever the other tasks add.     *)
(***************************************************************************)
C26_OwnContext ==
    /\ \A t, u \in CtxTasks :
          t # u => ContextsOf(t) \cap ContextsOf(u) = {}
    /\ \A t \in CtxTasks :
          /\ ContextsOf(t) \subseteq contexts
          /\ ct_pc[t] \in {"work", "page"} => context_of[t] # <<>>
          /\ \A c \in ContextsOf(t) : cart_of[c] = added_by[t]

\* C26, witness: two product tasks have added different amounts to their
\* carts while the listing task has its page context open
C26_TwoCarts ==
    /\ ct_pc[1] = "page"
    /\ added_by[2] = 1
    /\ added_by[3] = 4

(***************************************************************************)
(* C27: during a run data is append-only: every step of a task leaves the  *)
(* records of data where they are and as they are, and adds at most one    *)
(* record at the end.                                                      *)
(***************************************************************************)
C27_AppendOnly ==
    [][/\ Len(data') \in {Len(data), Len(data) + 1}
       /\ \A i \in 1 .. Len(data) : data'[i] = data[i]]_vars

\* C27, witness: a variant that had a record in the reloaded data was
\* observed again: the old record is in its place, a new one at the end
C27_ObservedAgain ==
    /\ Len(data) > Len(data0)
    /\ \E i \in 1 .. Len(data0) :
          /\ data[i] = data0[i]
          /\ data[i].URL = data[Len(data)].URL
          /\ data[i].Droplist = data[Len(data)].Droplist

(***************************************************************************)
(* C28: when the work on the k-th combination has failed and the task's    *)
(* finally block has written its files, data holds, after the records it   *)
(* had before, the records of the first k-1 combinations; data.pkl and     *)
(* output.csv hold all of data; and the URL is in failed_urls.             *)
(***************************************************************************)
C28_PartialResultsKept ==
    (/\ hu_pc \in {"close", "done"}
     /\ failure \in {"oracle", "select", "other"}
     /\ comb_i >= 1)
    => /\ Len(data) = Len(data0) + comb_i - 1
       /\ \A j \in 1 .. Len(data0) : data[j] = data0[j]
       /\ \A j \in 1 .. comb_i - 1 :
             /\ data[Len(data0) + j].URL = TaskUrl
             /\ data[Len(data0) + j].Droplist =
                   [k \in 1 .. Len(axes) |->
                       <<axes[k].name, all_combinations[j][k]>>]
       /\ data_pkl = data
       /\ output_csv = data
       /\ TaskUrl \in failed_urls

\* C28, witness: the probe of the second combination timed out and the task
\* is over; the record of the first combination is in data and on disk
C28_SecondProbeFailed ==
    /\ hu_pc = "done"
    /\ failure = "oracle"
    /\ comb_i = 2
    /\ Len(data) = Len(data0) + 1
    /\ data_pkl = data
    /\ data_pkl # data0

(***************************************************************************)
(* C29: against a cart that accumulates, with clicks that succeed and the  *)
(* guess 100, get_inventory_value ends, and returns a value between the    *)
(* stock less 2 and the stock; the cart never holds more than the stock,   *)
(* what is counted is what is in the cart, and no call is made for the     *)
(* quantity 1.                                                             *)
(***************************************************************************)
C29_CartProbeWithinTwo ==
    /\ [](/\ inventory <= stock
          /\ cartUnits <= stock
          /\ gi_pc \in {"loop", "done"} => inventory = cartUnits
          /\ tq_pc # "idle" => check_value # 1
          /\ gi_pc = "done" => (0 <= inventory /\ stock - inventory <= 2))
    /\ <>(gi_pc = "done")

\* C29, witness: the probe of a stock of 1000 has ended past its tenth call
\* (the 50000 were added to the quantity) with all 1000 units counted
C29_ThousandCounted ==
    /\ gi_pc = "done"
    /\ stock = 1000
    /\ inventory = 1000
    /\ try_count < 0
    /\ oracleKind = "cart"

C31_ClickSubmitsCheckValue ==
    tq_pc = "response" => (form.qty = check_value /\ form.variant = "chosen")

(***************************************************************************)
(* C32: the wait of page.expect_response that follows a successful click   *)
(* has the cart/add response of that click ahead of it: the response has   *)
(* not arrived before the wait was entered, so it is never missed.         *)
(***************************************************************************)
C32_ResponseObserved ==
    tq_pc # "idle" /\ tq_pc # "fill" /\ tq_pc # "click" => tq_pc = "response"

(***************************************************************************)
(* C33: handle_url returns at the check_handled_url test only if data holds *)
(* a record of the product for every one of its combinations, and never    *)
(* for a product that has no record in data.                               *)
(***************************************************************************)
C33_SkipsOnlyRecorded ==
    [][(hu_pc = "check" /\ hu_pc' = "finally" /\ failure' = failure)
        => /\ \A k \in 1 .. Len(all_combinations) :
                  HasRecord(data, TaskUrl, all_combinations[k])
           /\ \E i \in 1 .. Len(data) : data[i].URL = TaskUrl]_vars

C35_ContextClosed ==
    [][(hu_pc \in {"finally", "close"} /\ hu_pc' \in {"done", "raised"})
        => contexts' = {}]_vars

(***************************************************************************)
(* C36: in handle_listing of playwright_utils a failure of the navigation  *)
(* or of the extraction on a page does not stop the task: the step that    *)
(* catches it leaves products_urls.pkl as it is and raises nothing, the    *)
(* loop takes the page numbers one by one, and unless an exception reaches *)
(* the outer handler the loop ends at total_pages with every page that did *)
(* not fail merged into products_urls.pkl.                                 *)
(***************************************************************************)
C36_PageFailureCaught ==
    /\ [](\A l \in Listings :
             (lt_pc[l] = "close" /\ failure.kind # "outer")
                 => (page_id[l] = total_pages[l] /\ returned \subseteq products_pkl))
    /\ [][\A l \in Listings :
             /\ (lt_pc[l] \in {"goto", "extract"} /\ failure' # failure)
                   => /\ failure' = [kind |-> "page", page |-> page_id[l]]
                      /\ lt_pc'[l] = "pageclose"
                      /\ page_id'[l] = page_id[l]
                      /\ products_pkl' = products_pkl
                      /\ gather_raised' = gather_raised
             /\ (lt_pc[l] \notin {"open", "done", "raised"})
                   => page_id'[l] \in {page_id[l], page_id[l] + 1}]_vars

\* C36 witness: page 1 of a listing of two pages has failed, page 2 has
\* been visited and merged all the same
C36_SecondPageMerged ==
    \E l \in Listings :
        /\ lt_pc[l] = "pageclose"
        /\ failure = [kind |-> "page", page |-> 1]
        /\ page_id[l] = 2
        /\ returned = PageUrls(l, 2)
        /\ PageUrls(l, 2) \subseteq products_pkl

C38_CategoriesPartition ==
    sd_pc = "done" =>
        LET out  == standard_data.data.out_of_stocks_products
            ins  == standard_data.data.in_stocks_products
            one  == standard_data.data.only_1_stocks_products
            more == standard_data.data.more_5_stocks_products
            Range(q) == { q[i] : i \in 1 .. Len(q) }
        IN  /\ Len(out) + Len(ins) = Len(data0)
            /\ \A r \in Range(out) : r[StockKey] = 0
            /\ \A r \in Range(ins) : r[StockKey] > 0
            /\ Range(one) \subseteq Range(ins)
            /\ Range(more) \subseteq Range(ins)
            /\ Range(one) \cap Range(more) = {}
            /\ data = data0
            /\ "summary" \in DOMAIN standard_data
            /\ standard_data.summary.out_of_stock_count
                  + standard_data.summary.in_stock_count
                  = standard_data.summary.total_products
            /\ standard_data.summary.total_products = Len(data0)

====
